---- MODULE Spec2Model ----
(***************************************************************************)
(* StudyGPT: the session store, the response reconciler (processResponse   *)
(* over getChatResponse), the persistence service (sessionService) with    *)
(* the mount effects of the App, the voice commands (useVoiceCommands with *)
(* the tables of the App), the speech synthesis handlers and the aid views *)
(* (SlidesView, FlashcardsView, QuizView).                                 *)
(*                                                                         *)
(* The variables of a view hold the state of the mounted component; the    *)
(* specifications that do not show a view leave them at their initial      *)
(* values. A callback passed to setTimeout is a record of what its closure *)
(* captured, kept in the view's timeouts until it runs.                    *)
(*                                                                         *)
(* Text is a sequence of lexical tokens:                                   *)
(*   "a"  one character of plain text        "s"  one whitespace character *)
(*   "F"  three backticks                    "j"  the word json            *)
(*   "P.." the text of one JSON value (see ParsedJson), "Pbad" the text of *)
(*   a malformed JSON value (e.g. an object with a trailing comma).        *)
(* A message's content, a stream fragment and the full text of a response  *)
(* are such sequences; string concatenation is \o. The transcripts, the    *)
(* phrases and the keywords of the voice commands are strings of           *)
(* characters instead, since the dispatch cuts them by length.             *)
(*                                                                         *)
(* Date.now() is the variable now; it advances by Tick only, so two        *)
(* handlers can run within the same millisecond.                           *)
(*                                                                         *)
(* Message.timestamp and Message.useWebSearch are written once and read by *)
(* no modelled operation; they are left out of the message records.        *)
(***************************************************************************)
EXTENDS Integers, Sequences, FiniteSets, TLC

\* ----------------------------------------------------------------- bounds
MaxTime == 4
MaxSessions == 2
MaxMessages == 4
MaxStreams == 2
MaxChunks == 1
MaxTurnChunks == 5
MaxUploads == 1
MaxListSessions == 3
MaxListTime == 4
MaxSourceChunks == 2
MaxAidChunks == 3
MaxPersistSessions == 1
MaxStoreSessions == 1
MaxStoreMessages == 1
MaxVoiceLoad == 2
MaxDetached == 1

\* ------------------------------------------------------------- JS values
Null == "null"
Undefined == "undefined"
NoSession == 0

Last(seq) == seq[Len(seq)]
Front(seq) == SubSeq(seq, 1, Len(seq) - 1)

RECURSIVE SelectIdx(_, _, _)
SelectIdx(seq, keep, i) ==
    IF i > Len(seq) THEN <<>>
    ELSE (IF i \in keep THEN <<seq[i]>> ELSE <<>>) \o SelectIdx(seq, keep, i + 1)

\* ----------------------------------------------------------- text, regex
IsWs(t) == t = "s"

\* String.prototype.trim on a token sequence
Trim(text) ==
    LET nz == {i \in 1..Len(text) : ~IsWs(text[i])}
    IN  IF nz = {} THEN <<>>
        ELSE SubSeq(text, CHOOSE i \in nz : \A k \in nz : i <= k,
                          CHOOSE i \in nz : \A k \in nz : i >= k)

\* JsonMatch, but the last opening fence is taken instead of the first
JsonMatch_Last(text) ==
    LET n == Len(text)
        opens == {i \in 1..n : /\ i + 2 <= n
                               /\ text[i] = "F" /\ text[i + 1] = "j"
                               /\ \E k \in (i + 2)..n : text[k] = "F"}
    IN  IF opens = {} THEN [found |-> FALSE, from |-> 0, to |-> 0, group |-> <<>>]
        ELSE
          LET i == CHOOSE x \in opens : \A y \in opens : x >= y
              q == CHOOSE k \in (i + 2)..n :
                     /\ text[k] = "F"
                     /\ \A m \in (i + 2)..(k - 1) : text[m] # "F"
              body == {m \in (i + 2)..(q - 1) : ~IsWs(text[m])}
          IN  [found |-> TRUE, from |-> i, to |-> q,
               group |-> IF body = {} THEN <<>>
                         ELSE SubSeq(text,
                                CHOOSE m \in body : \A k \in body : m <= k,
                                CHOOSE m \in body : \A k \in body : m >= k)]

\* fullText.match(/```json\s*([\s\S]*?)\s*```/): the leftmost "F","j" that a
\* later "F" closes; the greedy \s* after the tag, the lazy group, the \s*
\* before the first closing "F". found = FALSE models a null match.
JsonMatch(text) ==
    LET n == Len(text)
        opens == {i \in 1..n : /\ i + 2 <= n
                               /\ text[i] = "F" /\ text[i + 1] = "j"
                               /\ \E k \in (i + 2)..n : text[k] = "F"}
    IN  IF opens = {} THEN [found |-> FALSE, from |-> 0, to |-> 0, group |-> <<>>]
        ELSE
          LET i == CHOOSE x \in opens : \A y \in opens : x <= y
              q == CHOOSE k \in (i + 2)..n :
                     /\ text[k] = "F"
                     /\ \A m \in (i + 2)..(k - 1) : text[m] # "F"
              body == {m \in (i + 2)..(q - 1) : ~IsWs(text[m])}
          IN  [found |-> TRUE, from |-> i, to |-> q,
               group |-> IF body = {} THEN <<>>
                         ELSE SubSeq(text,
                                CHOOSE m \in body : \A k \in body : m <= k,
                                CHOOSE m \in body : \A k \in body : m >= k)]

\* fullText.replace(jsonMatch[0], ''): the first occurrence of the matched
\* text is the match itself
RemoveMatch(text, m) == SubSeq(text, 1, m.from - 1) \o SubSeq(text, m.to + 1, Len(text))

\* ------------------------------------------------------------ JSON values
\* An aid field of a parsed payload: absent, a non-array value, or an array.
Absent == [kind |-> "absent", items |-> <<>>]
NotArray == [kind |-> "other", items |-> <<>>]
Arr(items) == [kind |-> "array", items |-> items]

\* JSON.parse of the text of one JSON value. isObject = FALSE is the JSON
\* value null, whose property access throws a TypeError.
ParsedJson(tok) ==
    CASE tok = "Pfc"    -> [isObject |-> TRUE, title |-> "T", quiz |-> Absent,
                            flashcards |-> Arr(<<"card1">>), slides |-> Absent]
      [] tok = "Pquiz"  -> [isObject |-> TRUE, title |-> "T", quiz |-> Arr(<<"quiz1">>),
                            flashcards |-> Absent, slides |-> Absent]
      [] tok = "Pall"   -> [isObject |-> TRUE, title |-> "T", quiz |-> Arr(<<"quiz1">>),
                            flashcards |-> Arr(<<"card1">>), slides |-> Arr(<<"slide1">>)]
      [] tok = "Pempty" -> [isObject |-> TRUE, title |-> "T", quiz |-> Absent,
                            flashcards |-> Arr(<<>>), slides |-> NotArray]
      [] tok = "Pslides" -> [isObject |-> TRUE, title |-> "T", quiz |-> Absent,
                             flashcards |-> Absent, slides |-> Arr(<<"slide1">>)]
      [] tok = "Pqf"    -> [isObject |-> TRUE, title |-> "T", quiz |-> Arr(<<"quiz1">>),
                            flashcards |-> Arr(<<"card1">>), slides |-> Absent]
      [] tok = "Pmixed" -> [isObject |-> TRUE, title |-> "T", quiz |-> Arr(<<"quiz1">>),
                            flashcards |-> Arr(<<>>), slides |-> NotArray]
      [] tok = "Pnull"  -> [isObject |-> FALSE, title |-> "", quiz |-> Absent,
                            flashcards |-> Absent, slides |-> Absent]

JsonValueTokens == {"Pfc", "Pquiz", "Pall", "Pempty", "Pslides", "Pqf", "Pmixed", "Pnull"}

\* JSON.parse(jsonMatch[1]) succeeds on the text of exactly one JSON value
\* (the group carries no leading or trailing whitespace)
JsonParses(group) == Len(group) = 1 /\ group[1] \in JsonValueTokens

\* `I've created the "${studyAidTitle}" for you.`
FallbackText(title) == <<"I've created the \"", title, "\" for you.">>

\* ---------------------------------------------------------------- state
VARIABLES
    sessions,         \* useState<StudySession[]>
    activeSessionId,  \* useState<string | null>, NoSession for null
    studyMode,        \* 'chat' | 'flashcards' | 'quiz' | 'slides'
    isLoading,        \* useState(false)
    notifications,    \* the notification list of NotificationProvider
    streams,          \* the processResponse invocations, in start order
    summaries,        \* the handleFileUpload invocations awaiting summarizeDocument
    now,              \* Date.now()
    crashed,          \* a state updater threw while rendering: the tree is unmounted
    storage,          \* localStorage under getStorageKey()
    backups,          \* localStorage under the -backup-<time> keys, as (time, data) pairs
    loaded,           \* the value returned by the last loadSessions()
    lastOp,           \* the handler that ran last, with its arguments
    voice,            \* useVoiceCommands: its state, the recognizer and the last dispatch
    navigationCommand, \* useState<NavigationCommand | null>, App line 150
    speech,           \* speakingIndex and the utterances of window.speechSynthesis
    slidesView,       \* SlidesView: its state and its pending timeouts
    flashcardsView,   \* FlashcardsView: its state
    quizView          \* QuizView: its state and its pending timeouts

appVars == <<sessions, activeSessionId, studyMode, isLoading, notifications,
             streams, summaries, now, crashed>>
storeVars == <<storage, backups, loaded, voice, navigationCommand,
                   speech, slidesView, flashcardsView, quizView>>
vars == <<sessions, activeSessionId, studyMode, isLoading, notifications,
          streams, summaries, now, crashed, storage, backups, loaded, lastOp,
          voice, navigationCommand,
                   speech, slidesView, flashcardsView, quizView>>

\* The state the voice dispatch writes besides the session store.
\* handleNewSession and handleSendMessage are also called by the voice
\* dispatch, so their frame for these two is stated where they are used.
voiceVars == <<voice, navigationCommand>>

Op(name, sid, k) == [op |-> name, sid |-> sid, k |-> k]

\* ------------------------------------------------------------- messages
RoleOf(m) == IF "role" \in DOMAIN m THEN m.role ELSE Undefined

\* { role: 'user', content: prompt, image: image ?? undefined, ... }
UserMessage(prompt, image) ==
    [role |-> "user", content |-> prompt,
     image |-> IF image = Null THEN Undefined ELSE image]

\* { role: 'user', content: prompt, timestamp } of handleExplainMessage
ExplainPrompt(content) == <<"Please explain this in simpler terms:">> \o content
ExplainMessage(content) == [role |-> "user", content |-> ExplainPrompt(content)]

\* { role: 'assistant', content: '', sources: [], timestamp }
PlaceholderMessage == [role |-> "assistant", content |-> <<>>, sources |-> <<>>]

\* { role: 'assistant', content, timestamp } of the catch block
ErrorMessage(content) == [role |-> "assistant", content |-> content]

\* { ...lastMessage, content: finalText, sources }; lastMessage is undefined
\* when the list is empty, and spreading undefined adds nothing
FinalMessage(messages, finalText, sources) ==
    LET base == IF messages = <<>> THEN {} ELSE DOMAIN Last(messages)
    IN  [key \in base \cup {"content", "sources"} |->
            IF key = "content" THEN finalText
            ELSE IF key = "sources" THEN sources
            ELSE Last(messages)[key]]

\* MessageItem renders 'Thinking...' for it
IsUnfinishedPlaceholder(m) == RoleOf(m) = "assistant" /\ m.content = <<>>

\* ------------------------------------------------------------- sessions
createNewSession(t) ==
    [id |-> t, title |-> "New Study Session", createdAt |-> t, updatedAt |-> t,
     messages |-> <<>>,
     flashcards |-> <<>>, flashcardsTitle |-> "",
     quizItems |-> <<>>, quizTitle |-> "",
     slides |-> <<>>, slidesTitle |-> "",
     documentContext |-> "", documentSummary |-> ""]

\* prevSessions.map(s => s.id === sid ? f(s) : s)
MapSessions(list, sid, f(_)) ==
    [i \in DOMAIN list |-> IF list[i].id = sid THEN f(list[i]) ELSE list[i]]

WithId(list, sid) == {i \in DOMAIN list : list[i].id = sid}

\* sessions.find(s => s.id === activeSessionId) || null, as an index (0: none)
activeSession ==
    IF WithId(sessions, activeSessionId) = {} THEN 0
    ELSE CHOOSE i \in WithId(sessions, activeSessionId) :
            \A k \in WithId(sessions, activeSessionId) : i <= k

\* LatestSession, but the sort is ascending: the session updated first
LatestSession_Ascending(list) ==
    list[CHOOSE i \in DOMAIN list :
            /\ \A k \in DOMAIN list : list[i].updatedAt <= list[k].updatedAt
            /\ \A k \in 1..(i - 1) : list[i].updatedAt < list[k].updatedAt]

\* [...list].sort((a, b) => b.updatedAt - a.updatedAt)[0]: the sort is
\* stable, so the first session of the list among those updated last
LatestSession(list) ==
    list[CHOOSE i \in DOMAIN list :
            /\ \A k \in DOMAIN list : list[k].updatedAt <= list[i].updatedAt
            /\ \A k \in 1..(i - 1) : list[k].updatedAt < list[i].updatedAt]

\* ------------------------------------------------------ voice: strings
\* The text of an utterance, a command phrase and a keyword are JavaScript
\* strings, modelled character by character.

UpperCase ==
    <<"A", "B", "C", "D", "E", "F", "G", "H", "I", "J", "K", "L", "M",
      "N", "O", "P", "Q", "R", "S", "T", "U", "V", "W", "X", "Y", "Z">>
LowerCase ==
    <<"a", "b", "c", "d", "e", "f", "g", "h", "i", "j", "k", "l", "m",
      "n", "o", "p", "q", "r", "s", "t", "u", "v", "w", "x", "y", "z">>

\* String.prototype.toLowerCase
toLowerCase(text) ==
    [i \in DOMAIN text |->
        IF \E k \in DOMAIN UpperCase : UpperCase[k] = text[i]
        THEN LowerCase[CHOOSE k \in DOMAIN UpperCase : UpperCase[k] = text[i]]
        ELSE text[i]]

\* String.prototype.trim on a string of characters
trim(text) ==
    LET nz == {i \in 1..Len(text) : text[i] # " "}
    IN  IF nz = {} THEN <<>>
        ELSE SubSeq(text, CHOOSE i \in nz : \A k \in nz : i <= k,
                          CHOOSE i \in nz : \A k \in nz : i >= k)

\* String.prototype.startsWith
startsWith(text, prefix) ==
    Len(prefix) <= Len(text) /\ SubSeq(text, 1, Len(prefix)) = prefix

\* String.prototype.substring(start) for 0 <= start
substring(text, start) ==
    IF start >= Len(text) THEN <<>> ELSE SubSeq(text, start + 1, Len(text))

\* A string of characters as the lexical tokens of a message's content
ToTokens(text) == [i \in DOMAIN text |-> IF text[i] = " " THEN "s" ELSE "a"]

\* The reserved phrases of processTranscript, line 93
StopListeningPhrase == <<"s", "t", "o", "p", " ", "l", "i", "s", "t", "e", "n", "i", "n", "g">>
Cancel == <<"c", "a", "n", "c", "e", "l">>

\* A property name every object literal inherits from Object.prototype
Constructor == <<"c", "o", "n", "s", "t", "r", "u", "c", "t", "o", "r">>

\* ------------------------------------------------------- voice: tables
\* voiceCommands, App lines 472-487: phrase -> the action it names,
\* one phrase per line in the order of the source
voiceCommands ==
       (<<"n", "e", "w", " ", "s", "e", "s", "s", "i", "o", "n">> :> "handleNewSession")
    @@ (<<"s", "t", "a", "r", "t", " ", "n", "e", "w", " ", "c", "h", "a", "t">> :> "handleNewSession")
    @@ (<<"s", "t", "a", "r", "t", " ", "o", "v", "e", "r">> :> "handleNewSession")
    @@ (<<"s", "h", "o", "w", " ", "f", "l", "a", "s", "h", "c", "a", "r", "d", "s">> :> "showFlashcards")
    @@ (<<"o", "p", "e", "n", " ", "q", "u", "i", "z">> :> "openQuiz")
    @@ (<<"v", "i", "e", "w", " ", "s", "l", "i", "d", "e", "s">> :> "viewSlides")
    @@ (<<"s", "h", "o", "w", " ", "p", "r", "e", "s", "e", "n", "t", "a", "t", "i", "o", "n">> :> "viewSlides")
    @@ (<<"g", "o", " ", "t", "o", " ", "c", "h", "a", "t">> :> "goToChat")
    @@ (<<"n", "e", "x", "t">> :> "next")
    @@ (<<"n", "e", "x", "t", " ", "c", "a", "r", "d">> :> "next")
    @@ (<<"n", "e", "x", "t", " ", "s", "l", "i", "d", "e">> :> "next")
    @@ (<<"p", "r", "e", "v", "i", "o", "u", "s">> :> "prev")
    @@ (<<"p", "r", "e", "v", "i", "o", "u", "s", " ", "c", "a", "r", "d">> :> "prev")
    @@ (<<"p", "r", "e", "v", "i", "o", "u", "s", " ", "s", "l", "i", "d", "e">> :> "prev")

\* dynamicVoiceCommands, App lines 489-494: ask, say, tell me, search for,
\* what is, who is, explain
dynamicVoiceCommands ==
    <<[keywords |-> <<<<"a", "s", "k">>,
                    <<"s", "a", "y">>,
                    <<"t", "e", "l", "l", " ", "m", "e">>,
                    <<"s", "e", "a", "r", "c", "h", " ", "f", "o", "r">>,
                    <<"w", "h", "a", "t", " ", "i", "s">>,
                    <<"w", "h", "o", " ", "i", "s">>,
                    <<"e", "x", "p", "l", "a", "i", "n">>>>,
      action |-> "handleSendMessage"]>>

\* The hook takes any tables (useVoiceCommands.ts line 51). A second pair:
\* a static phrase that is a reserved phrase, two dynamic rules, a keyword
\* that is a prefix of another rule's keyword and a keyword that is a prefix
\* of a reserved phrase. Their actions are callbacks without effect on the
\* application.
OtherStaticCommands == (Cancel :> "onCancel")
\* The rules: tell; then tell me, stop
OtherDynamicCommands ==
    <<[keywords |-> <<<<"t", "e", "l", "l">>>>, action |-> "onTell"],
      [keywords |-> <<<<"t", "e", "l", "l", " ", "m", "e">>,
                      <<"s", "t", "o", "p">>>>, action |-> "onSecond"]>>

TableNames == {"app", "other"}
StaticCommands(tables) == IF tables = "app" THEN voiceCommands ELSE OtherStaticCommands
DynamicCommands(tables) ==
    IF tables = "app" THEN dynamicVoiceCommands ELSE OtherDynamicCommands

\* staticCommands[lowerCaseText], line 71: a property lookup on an object
\* literal, which also finds the properties inherited from Object.prototype;
\* "constructor" is the one a transcript can spell, and it is callable
StaticLookup(static, key) ==
    IF key \in DOMAIN static THEN static[key]
    ELSE IF key = Constructor THEN "Object"
    ELSE Undefined

\* The (rule, keyword) positions whose keyword + ' ' starts the text
DynamicMatches(dynamic, lowerCaseText) ==
    {m \in UNION {{<<c, k>> : k \in DOMAIN dynamic[c].keywords} : c \in DOMAIN dynamic} :
        startsWith(lowerCaseText, dynamic[m[1]].keywords[m[2]] \o <<" ">>)}

\* The position the nested loops of lines 79-89 reach first
FirstMatch(matches) ==
    CHOOSE m \in matches :
        \A o \in matches : m[1] < o[1] \/ (m[1] = o[1] /\ m[2] <= o[2])

Ran(table, action, argument) ==
    [table |-> table, action |-> action, argument |-> argument]

\* processTranscript, lines 68-96, as the callbacks it calls in order and
\* whether it calls stopListening
Dispatch(static, dynamic, text) ==
    LET lowerCaseText == trim(toLowerCase(text))
        matches == DynamicMatches(dynamic, lowerCaseText)
        m == FirstMatch(matches)
        keywordWithSpace == dynamic[m[1]].keywords[m[2]] \o <<" ">>
    IN  IF StaticLookup(static, lowerCaseText) # Undefined
        THEN [ran |-> <<Ran("static", StaticLookup(static, lowerCaseText), <<>>)>>,
              stop |-> TRUE]
        ELSE IF matches # {}
        THEN [ran |-> <<Ran("dynamic", dynamic[m[1]].action,
                            substring(text, Len(keywordWithSpace)))>>,
              stop |-> TRUE]
        ELSE [ran |-> <<>>, stop |-> lowerCaseText \in {StopListeningPhrase, Cancel}]

\* new SpeechRecognition() of the effect at lines 98-146. Its onresult holds
\* the processTranscript of the render that created it, and through it the
\* tables of that render: voiceCommands reads the activeSession and
\* handleSendMessage the activeSessionId of that render. The session is a
\* sequence of one record, empty for null; the recognizer keeps the fields
\* the tables read.
Recognizer(id, session) ==
    [state |-> "idle", capturedId |-> id,
     captured |-> [i \in DOMAIN session |->
                     [flashcards |-> session[i].flashcards,
                      quizItems |-> session[i].quizItems,
                      slides |-> session[i].slides]]]

\* useState<NavigationCommand | null>(null), App line 150: null as a record
NoCommand == [command |-> "none", timestamp |-> 0]

\* The hook after the first effects of the App
VoiceMounted(tables, id, session) ==
    [tables |-> tables, isListening |-> FALSE, deps |-> <<id, session>>,
     current |-> Recognizer(id, session), detached |-> {}, ran |-> <<>>]

\* ------------------------------------------------------ getChatResponse
\* One groundingChunk of a stream chunk: kind is "retrieved" (retrievedContext),
\* "web" or "none"; uri "" is a missing uri; content may be Undefined.
\* The mapped Source, or <<>> for the null that .filter drops.
SourceOf(gc) ==
    IF gc.kind = "retrieved" /\ gc.uri # ""
      THEN <<[uri |-> gc.uri, title |-> gc.title, content |-> gc.content]>>
    ELSE IF gc.kind = "web" /\ gc.uri # ""
      THEN <<[uri |-> gc.uri, title |-> gc.title]>>
    ELSE <<>>

RECURSIVE chunkSources(_)
chunkSources(grounding) ==
    IF grounding = <<>> THEN <<>>
    ELSE SourceOf(grounding[1]) \o chunkSources(Tail(grounding))

\* Array.from(new Map(allSources.map(s => [s.uri, s])).values()): a Map keeps
\* a key at the position of its first insertion and the value of its last
DedupSources(allSources) ==
    LET firsts == {i \in DOMAIN allSources :
                     \A k \in 1..(i - 1) : allSources[k].uri # allSources[i].uri}
        lastOf(i) == CHOOSE k \in DOMAIN allSources :
                        /\ allSources[k].uri = allSources[i].uri
                        /\ \A m \in (k + 1)..Len(allSources) :
                              allSources[m].uri # allSources[i].uri
        pick == [i \in DOMAIN allSources |-> allSources[lastOf(i)]]
    IN  SelectIdx(pick, firsts, 1)

\* handleApiError: an error is [isError, message, contains], contains being
\* the substrings of the lower-cased message that the classification tests
handleApiError(error) ==
    IF error.isError THEN
        IF "api key not valid" \in error.contains
          THEN "The provided API key is not valid. Please check your configuration."
        ELSE IF "rate limit" \in error.contains \/ "429" \in error.contains
          THEN "You've sent too many requests. Please wait a moment and try again."
        ELSE IF "[400]" \in error.contains
          THEN "There was a problem with the request. Please check your input and try again."
        ELSE IF "[5" \in error.contains
          THEN "The AI service is currently unavailable. Please try again later."
        ELSE error.message
    ELSE "An unexpected error occurred. Please try again."

\* a message string as text: the empty string is the empty text
TextOf(str) == IF str = "" THEN <<>> ELSE <<str>>

\* ------------------------------------------------------ processResponse
NonEmptyArray(field) == field.kind = "array" /\ Len(field.items) > 0

\* Reconcile, but the matched block is stripped whether or not it parsed
Reconcile_StripsUnparsed(fullText) ==
    LET m == JsonMatch(fullText)
        ok == /\ m.found /\ m.group # <<>>
              /\ JsonParses(m.group)
              /\ ParsedJson(m.group[1]).isObject
        pj == ParsedJson(m.group[1])
        quiz == IF ok /\ NonEmptyArray(pj.quiz) THEN pj.quiz.items ELSE <<>>
        cards == IF ok /\ NonEmptyArray(pj.flashcards) THEN pj.flashcards.items ELSE <<>>
        slides == IF ok /\ NonEmptyArray(pj.slides) THEN pj.slides.items ELSE <<>>
        title == IF ok THEN pj.title ELSE ""
        stripped == Trim(RemoveMatch(fullText, m))
    IN  [finalText |-> IF m.found
                         THEN (IF stripped = <<>> THEN FallbackText(title) ELSE stripped)
                         ELSE fullText,
         newFlashcards |-> cards, newQuizItems |-> quiz, newSlides |-> slides,
         studyAidTitle |-> title,
         modes |-> (IF quiz # <<>> THEN <<"quiz">> ELSE <<>>)
                   \o (IF cards # <<>> THEN <<"flashcards">> ELSE <<>>)
                   \o (IF slides # <<>> THEN <<"slides">> ELSE <<>>)]

\* Reconcile, but the text left after the block is removed is not trimmed
Reconcile_NoTrim(fullText) ==
    LET m == JsonMatch(fullText)
        ok == /\ m.found /\ m.group # <<>>
              /\ JsonParses(m.group)
              /\ ParsedJson(m.group[1]).isObject
        pj == ParsedJson(m.group[1])
        quiz == IF ok /\ NonEmptyArray(pj.quiz) THEN pj.quiz.items ELSE <<>>
        cards == IF ok /\ NonEmptyArray(pj.flashcards) THEN pj.flashcards.items ELSE <<>>
        slides == IF ok /\ NonEmptyArray(pj.slides) THEN pj.slides.items ELSE <<>>
        studyAidGenerated == quiz # <<>> \/ cards # <<>> \/ slides # <<>>
        title == IF ok THEN pj.title ELSE ""
        stripped == RemoveMatch(fullText, m)
    IN  [finalText |-> IF studyAidGenerated
                         THEN (IF stripped = <<>> THEN FallbackText(title) ELSE stripped)
                         ELSE fullText,
         newFlashcards |-> cards, newQuizItems |-> quiz, newSlides |-> slides,
         studyAidTitle |-> title,
         modes |-> (IF quiz # <<>> THEN <<"quiz">> ELSE <<>>)
                   \o (IF cards # <<>> THEN <<"flashcards">> ELSE <<>>)
                   \o (IF slides # <<>> THEN <<"slides">> ELSE <<>>)]

\* Reconcile, but the aid kinds are checked in the order slides, flashcards,
\* quiz
Reconcile_ChecksSlidesFirst(fullText) ==
    LET m == JsonMatch(fullText)
        ok == /\ m.found /\ m.group # <<>>
              /\ JsonParses(m.group)
              /\ ParsedJson(m.group[1]).isObject
        pj == ParsedJson(m.group[1])
        quiz == IF ok /\ NonEmptyArray(pj.quiz) THEN pj.quiz.items ELSE <<>>
        cards == IF ok /\ NonEmptyArray(pj.flashcards) THEN pj.flashcards.items ELSE <<>>
        slides == IF ok /\ NonEmptyArray(pj.slides) THEN pj.slides.items ELSE <<>>
        studyAidGenerated == quiz # <<>> \/ cards # <<>> \/ slides # <<>>
        title == IF ok THEN pj.title ELSE ""
        stripped == Trim(RemoveMatch(fullText, m))
    IN  [finalText |-> IF studyAidGenerated
                         THEN (IF stripped = <<>> THEN FallbackText(title) ELSE stripped)
                         ELSE fullText,
         newFlashcards |-> cards, newQuizItems |-> quiz, newSlides |-> slides,
         studyAidTitle |-> title,
         modes |-> (IF slides # <<>> THEN <<"slides">> ELSE <<>>)
                   \o (IF cards # <<>> THEN <<"flashcards">> ELSE <<>>)
                   \o (IF quiz # <<>> THEN <<"quiz">> ELSE <<>>)]

\* lines 266-303: the post-processing of the full text. modes lists the
\* setStudyMode calls in order.
Reconcile(fullText) ==
    LET m == JsonMatch(fullText)
        \* jsonMatch && jsonMatch[1], JSON.parse, then parsedJson.title:
        \* a SyntaxError or TypeError is caught and logged
        ok == /\ m.found /\ m.group # <<>>
              /\ JsonParses(m.group)
              /\ ParsedJson(m.group[1]).isObject
        pj == ParsedJson(m.group[1])
        quiz == IF ok /\ NonEmptyArray(pj.quiz) THEN pj.quiz.items ELSE <<>>
        cards == IF ok /\ NonEmptyArray(pj.flashcards) THEN pj.flashcards.items ELSE <<>>
        slides == IF ok /\ NonEmptyArray(pj.slides) THEN pj.slides.items ELSE <<>>
        studyAidGenerated == quiz # <<>> \/ cards # <<>> \/ slides # <<>>
        title == IF ok THEN pj.title ELSE ""
        stripped == Trim(RemoveMatch(fullText, m))
    IN  [finalText |-> IF studyAidGenerated
                         THEN (IF stripped = <<>> THEN FallbackText(title) ELSE stripped)
                         ELSE fullText,
         newFlashcards |-> cards, newQuizItems |-> quiz, newSlides |-> slides,
         studyAidTitle |-> title,
         modes |-> (IF quiz # <<>> THEN <<"quiz">> ELSE <<>>)
                   \o (IF cards # <<>> THEN <<"flashcards">> ELSE <<>>)
                   \o (IF slides # <<>> THEN <<"slides">> ELSE <<>>)]

\* ReconciledSession, but a new flashcard deck keeps the old deck's title
ReconciledSession_KeepsTitle(s, r, sources, t) ==
    [s EXCEPT
       !.messages = Front(s.messages) \o <<FinalMessage(s.messages, r.finalText, sources)>>,
       !.flashcards = IF Len(r.newFlashcards) > 0 THEN r.newFlashcards ELSE s.flashcards,
       !.quizItems = IF Len(r.newQuizItems) > 0 THEN r.newQuizItems ELSE s.quizItems,
       !.quizTitle = IF Len(r.newQuizItems) > 0 THEN r.studyAidTitle ELSE s.quizTitle,
       !.slides = IF Len(r.newSlides) > 0 THEN r.newSlides ELSE s.slides,
       !.slidesTitle = IF Len(r.newSlides) > 0 THEN r.studyAidTitle ELSE s.slidesTitle,
       !.updatedAt = t]

\* ReconciledSession, but every aid slot takes the value of the turn, an
\* empty one included
ReconciledSession_ClearsAbsent(s, r, sources, t) ==
    [s EXCEPT
       !.messages = Front(s.messages) \o <<FinalMessage(s.messages, r.finalText, sources)>>,
       !.flashcards = r.newFlashcards,
       !.flashcardsTitle = IF Len(r.newFlashcards) > 0 THEN r.studyAidTitle ELSE s.flashcardsTitle,
       !.quizItems = r.newQuizItems,
       !.quizTitle = IF Len(r.newQuizItems) > 0 THEN r.studyAidTitle ELSE s.quizTitle,
       !.slides = r.newSlides,
       !.slidesTitle = IF Len(r.newSlides) > 0 THEN r.studyAidTitle ELSE s.slidesTitle,
       !.updatedAt = t]

\* lines 305-323: the session after the final update
ReconciledSession(s, r, sources, t) ==
    [s EXCEPT
       !.messages = Front(s.messages) \o <<FinalMessage(s.messages, r.finalText, sources)>>,
       !.flashcards = IF Len(r.newFlashcards) > 0 THEN r.newFlashcards ELSE s.flashcards,
       !.flashcardsTitle = IF Len(r.newFlashcards) > 0 THEN r.studyAidTitle ELSE s.flashcardsTitle,
       !.quizItems = IF Len(r.newQuizItems) > 0 THEN r.newQuizItems ELSE s.quizItems,
       !.quizTitle = IF Len(r.newQuizItems) > 0 THEN r.studyAidTitle ELSE s.quizTitle,
       !.slides = IF Len(r.newSlides) > 0 THEN r.newSlides ELSE s.slides,
       !.slidesTitle = IF Len(r.newSlides) > 0 THEN r.studyAidTitle ELSE s.slidesTitle,
       !.updatedAt = t]

\* lines 250-263: what onChunk makes of one session; messages[-1].role of an
\* empty list throws a TypeError inside the state updater
OnChunkThrows(list, sid) == \E i \in WithId(list, sid) : list[i].messages = <<>>

\* OnChunkSession, but the fragment is put in front of the content
OnChunkSession_Prepends(s, chunkText) ==
    IF RoleOf(Last(s.messages)) = "assistant"
    THEN [s EXCEPT !.messages =
            Front(s.messages) \o
              <<[Last(s.messages) EXCEPT !.content = chunkText \o Last(s.messages).content]>>]
    ELSE s

OnChunkSession(s, chunkText) ==
    IF RoleOf(Last(s.messages)) = "assistant"
    THEN [s EXCEPT !.messages =
            Front(s.messages) \o
              <<[Last(s.messages) EXCEPT !.content = Last(s.messages).content \o chunkText]>>]
    ELSE s

\* line 328: the session after the catch block's update
\* ErrorSession, but the error message is added after the last message
ErrorSession_Appends(s, content) ==
    [s EXCEPT !.messages = Append(s.messages, ErrorMessage(content))]

\* lines 327-329: the last message of the session is replaced
ErrorSession(s, content) ==
    [s EXCEPT !.messages = Front(s.messages) \o <<ErrorMessage(content)>>]

\* lines 244-247
WithPlaceholder(s) == [s EXCEPT !.messages = Append(s.messages, PlaceholderMessage)]

NewStream(sid) ==
    [sessionId |-> sid, status |-> "streaming", chunks |-> <<>>,
     fullText |-> <<>>, allSources |-> <<>>, targetDeleted |-> FALSE]

\* ---------------------------------------------------------- the handlers
Notify(title, message, type) ==
    Append(notifications, [title |-> title, message |-> message, type |-> type])

\* titleContent.length > 40 ? ... : titleContent; the prompts are short
TitleOf(prompt, image) ==
    IF image # Null /\ prompt = <<>> THEN "Image Analysis" ELSE prompt[1]

Tick ==
    /\ now' = now + 1
    /\ lastOp' = Op("Tick", NoSession, 0)
    /\ UNCHANGED <<sessions, activeSessionId, studyMode, isLoading, notifications,
                   streams, summaries, crashed, storage, backups, loaded, voice, navigationCommand,
                   speech, slidesView, flashcardsView, quizView>>

\* lines 376-383
handleNewSession ==
    /\ ~crashed
    /\ sessions' = <<createNewSession(now)>> \o sessions
    /\ activeSessionId' = now
    /\ studyMode' = "chat"
    /\ lastOp' = Op("handleNewSession", now, 0)
    /\ UNCHANGED <<isLoading, notifications, streams, summaries, now, crashed,
                   storage, backups, loaded,
                   speech, slidesView, flashcardsView, quizView>>

\* lines 385-389, from the session panel's list
handleLoadSession(sid) ==
    /\ ~crashed
    /\ WithId(sessions, sid) # {}
    /\ activeSessionId' = sid
    /\ studyMode' = "chat"
    /\ lastOp' = Op("handleLoadSession", sid, 0)
    /\ UNCHANGED <<sessions, isLoading, notifications, streams, summaries, now,
                   crashed, storage, backups, loaded, voice, navigationCommand,
                   speech, slidesView, flashcardsView, quizView>>

\* line 631: the header logo deselects the session
goHome ==
    /\ ~crashed
    /\ activeSessionId # NoSession
    /\ activeSessionId' = NoSession
    /\ lastOp' = Op("goHome", NoSession, 0)
    /\ UNCHANGED <<sessions, studyMode, isLoading, notifications, streams,
                   summaries, now, crashed, storage, backups, loaded, voice, navigationCommand,
                   speech, slidesView, flashcardsView, quizView>>

\* lines 391-400. k records whether the deleted session was the active one.
handleDeleteSession(sid) ==
    LET remaining == SelectIdx(sessions, DOMAIN sessions \ WithId(sessions, sid), 1)
    IN  /\ ~crashed
        /\ WithId(sessions, sid) # {}
        /\ sessions' = remaining
        /\ activeSessionId' =
             IF activeSessionId = sid
             THEN (IF remaining # <<>> THEN LatestSession(remaining).id ELSE NoSession)
             ELSE activeSessionId
        /\ streams' = [i \in DOMAIN streams |->
                         IF streams[i].sessionId = sid
                         THEN [streams[i] EXCEPT !.targetDeleted = TRUE]
                         ELSE streams[i]]
        /\ lastOp' = Op("handleDeleteSession", sid, IF activeSessionId = sid THEN 1 ELSE 0)
        /\ UNCHANGED <<studyMode, isLoading, notifications, summaries, now,
                       crashed, storage, backups, loaded, voice, navigationCommand,
                   speech, slidesView, flashcardsView, quizView>>

\* lines 335-374 with processResponse up to its first await (lines 243-247),
\* as the callback of a render whose activeSessionId was capturedId
sendMessageFrom(capturedId, prompt, image) ==
    LET sid == IF capturedId = NoSession THEN now ELSE capturedId
        created == IF capturedId = NoSession
                   THEN <<[createNewSession(now) EXCEPT !.title = TitleOf(prompt, image)]>>
                        \o sessions
                   ELSE sessions
        addUser(s) == [s EXCEPT
                         !.messages = Append(s.messages, UserMessage(prompt, image)),
                         !.title = IF Len(s.messages) = 0
                                   THEN TitleOf(prompt, image) ELSE s.title]
        withUser == MapSessions(created, sid, addUser)
    IN  /\ ~crashed
        /\ ~(Trim(prompt) = <<>> /\ image = Null)
        /\ sessions' = MapSessions(withUser, sid, WithPlaceholder)
        /\ activeSessionId' = IF capturedId = NoSession THEN sid ELSE activeSessionId
        /\ isLoading' = TRUE
        /\ studyMode' = "chat"
        /\ streams' = Append(streams, NewStream(sid))
        /\ lastOp' = Op("handleSendMessage", sid, Len(streams) + 1)
        /\ UNCHANGED <<notifications, summaries, now, crashed, storage, backups, loaded,
                   speech, slidesView, flashcardsView, quizView>>

\* handleSendMessage as the interface calls it: the callback of the last render
handleSendMessage(prompt, image) == sendMessageFrom(activeSessionId, prompt, image)

\* updateActiveSession, lines 211-222, with a transform function
updateActiveSession(list, f(_)) ==
    LET stamped(s) == [f(s) EXCEPT !.updatedAt = now]
    IN  IF activeSessionId = NoSession THEN list
        ELSE MapSessions(list, activeSessionId, stamped)

\* The Explain and Delete buttons of MessageItem exist on assistant messages
\* with content only (OutputPanel.tsx:127)
HasActions(m) == RoleOf(m) = "assistant" /\ m.content # <<>>

\* lines 422-430, from the Explain button of message idx of the active session
handleExplainMessage(idx) ==
    LET content == sessions[activeSession].messages[idx].content
        addUser(s) == [s EXCEPT !.messages = Append(s.messages, ExplainMessage(content))]
        sid == sessions[activeSession].id
    IN  /\ ~crashed
        /\ activeSession # 0
        /\ idx \in DOMAIN sessions[activeSession].messages
        /\ HasActions(sessions[activeSession].messages[idx])
        /\ sessions' = MapSessions(updateActiveSession(sessions, addUser), sid, WithPlaceholder)
        /\ isLoading' = TRUE
        /\ streams' = Append(streams, NewStream(sid))
        /\ lastOp' = Op("handleExplainMessage", sid, Len(streams) + 1)
        /\ UNCHANGED <<activeSessionId, studyMode, notifications, summaries, now,
                       crashed, storage, backups, loaded, voice, navigationCommand,
                   speech, slidesView, flashcardsView, quizView>>

\* lines 432-435, from the Delete button of message idx: slice(0, messageIndex)
handleDeleteMessage(idx) ==
    LET cut(s) == [s EXCEPT !.messages = SubSeq(s.messages, 1, idx - 1)]
    IN  /\ ~crashed
        /\ activeSession # 0
        /\ idx \in DOMAIN sessions[activeSession].messages
        /\ HasActions(sessions[activeSession].messages[idx])
        /\ sessions' = updateActiveSession(sessions, cut)
        /\ lastOp' = Op("handleDeleteMessage", activeSessionId, idx)
        /\ UNCHANGED <<activeSessionId, studyMode, isLoading, notifications, streams,
                       summaries, now, crashed, storage, backups, loaded, voice, navigationCommand,
                   speech, slidesView, flashcardsView, quizView>>

\* getChatResponse lines 182-210: one chunk of the stream, with onChunk
\* (lines 250-263) for a chunk that carries text
streamChunk(i, text, grounding) ==
    LET st == streams[i]
        append(s) == OnChunkSession(s, text)
        throws == text # <<>> /\ OnChunkThrows(sessions, st.sessionId)
    IN  /\ ~crashed
        /\ i \in DOMAIN streams
        /\ st.status = "streaming"
        /\ streams' = [streams EXCEPT ![i] =
                         [st EXCEPT !.chunks = Append(st.chunks, [text |-> text,
                                                          grounding |-> grounding]),
                                    !.fullText = st.fullText \o text,
                                    !.allSources = st.allSources \o chunkSources(grounding)]]
        /\ crashed' = throws
        /\ sessions' = IF text = <<>> \/ throws THEN sessions
                       ELSE MapSessions(sessions, st.sessionId, append)
        /\ lastOp' = Op("streamChunk", st.sessionId, i)
        /\ UNCHANGED <<activeSessionId, studyMode, isLoading, notifications,
                       summaries, now, storage, backups, loaded, voice, navigationCommand,
                   speech, slidesView, flashcardsView, quizView>>

\* processResponse lines 265-323 and 330-332: the stream ended
streamComplete(i) ==
    LET st == streams[i]
        r == Reconcile(st.fullText)
        sources == DedupSources(st.allSources)
        final(s) == ReconciledSession(s, r, sources, now)
    IN  /\ ~crashed
        /\ i \in DOMAIN streams
        /\ st.status = "streaming"
        /\ streams' = [streams EXCEPT ![i].status = "done"]
        /\ studyMode' = IF r.modes = <<>> THEN studyMode ELSE Last(r.modes)
        /\ sessions' = MapSessions(sessions, st.sessionId, final)
        /\ isLoading' = FALSE
        /\ lastOp' = Op("streamComplete", st.sessionId, i)
        /\ UNCHANGED <<activeSessionId, notifications, summaries, now, crashed,
                       storage, backups, loaded, voice, navigationCommand,
                   speech, slidesView, flashcardsView, quizView>>

\* getChatResponse lines 215-217 and processResponse lines 324-332: the
\* generation call or the stream threw
streamFail(i, error) ==
    LET st == streams[i]
        content == handleApiError(error)
        failed(s) == ErrorSession(s, TextOf(content))
    IN  /\ ~crashed
        /\ i \in DOMAIN streams
        /\ st.status = "streaming"
        /\ streams' = [streams EXCEPT ![i].status = "failed"]
        /\ notifications' = Notify("Error", content, "error")
        /\ sessions' = MapSessions(sessions, st.sessionId, failed)
        /\ isLoading' = FALSE
        /\ lastOp' = Op("streamFail", st.sessionId, i)
        /\ UNCHANGED <<activeSessionId, studyMode, summaries, now, crashed,
                       storage, backups, loaded, voice, navigationCommand,
                   speech, slidesView, flashcardsView, quizView>>

\* lines 402-409: handleFileUpload up to its await
handleFileUpload ==
    /\ ~crashed
    /\ sessions' = <<[createNewSession(now) EXCEPT
                        !.title = "file.txt",
                        !.documentContext = "document text",
                        !.documentSummary = "Generating summary..."]>> \o sessions
    /\ activeSessionId' = now
    /\ summaries' = Append(summaries, [sessionId |-> now, status |-> "pending"])
    /\ lastOp' = Op("handleFileUpload", now, 0)
    /\ UNCHANGED <<studyMode, isLoading, notifications, streams, now, crashed,
                   storage, backups, loaded, voice, navigationCommand,
                   speech, slidesView, flashcardsView, quizView>>

\* lines 411-419: summarizeDocument returned, or threw
summaryArrives(i, ok, error) ==
    LET sid == summaries[i].sessionId
        text == IF ok THEN "summary" ELSE handleApiError(error)
        set(s) == [s EXCEPT !.documentSummary = text]
    IN  /\ ~crashed
        /\ i \in DOMAIN summaries
        /\ summaries[i].status = "pending"
        /\ summaries' = [summaries EXCEPT ![i].status = "done"]
        /\ sessions' = MapSessions(sessions, sid, set)
        /\ notifications' =
             IF ok
             THEN Notify("Summary Ready!", "The summary is now available.", "success")
             ELSE Notify("Summarization Failed", text, "error")
        /\ lastOp' = Op("summaryArrives", sid, i)
        /\ UNCHANGED <<activeSessionId, studyMode, isLoading, streams, now, crashed,
                       storage, backups, loaded, voice, navigationCommand,
                   speech, slidesView, flashcardsView, quizView>>

\* ------------------------------------------------------- the environment
\* Errors thrown by the generation call
RateLimitError == [isError |-> TRUE, message |-> "got status: 429",
                   contains |-> {"429"}]
ApiKeyError == [isError |-> TRUE, message |-> "API key not valid",
                contains |-> {"api key not valid"}]
BadRequestError == [isError |-> TRUE, message |-> "[400] bad request",
                    contains |-> {"[400]"}]
UnavailableError == [isError |-> TRUE, message |-> "[503] overloaded",
                     contains |-> {"[5"}]
SafetyError == [isError |-> TRUE, message |-> "blocked by safety settings",
                contains |-> {}]
EmptyError == [isError |-> TRUE, message |-> "", contains |-> {}]
NotAnError == [isError |-> FALSE, message |-> "", contains |-> {}]

AppErrors == {RateLimitError}
AppFragments == {<<"a">>, <<"F", "j", "Pfc", "F">>}
Prompts == {<<"q">>}

\* Sessions stored by an earlier run, as the mount effect (lines 155-169)
\* loads them: created at 1 and 2, the older one updated last
StoredSession(t, u) ==
    [createNewSession(t) EXCEPT
       !.title = "q", !.updatedAt = u,
       !.messages = <<[role |-> "user", content |-> <<"q">>],
                      [role |-> "assistant", content |-> <<"a">>, sources |-> <<>>]>>]

StoredLists == {<<>>, <<StoredSession(2, 2), StoredSession(1, 3)>>}

\* A stored session that holds aids of an earlier turn
PriorSession ==
    [StoredSession(1, 2) EXCEPT
       !.flashcards = <<"card0">>, !.flashcardsTitle = "T0",
       !.quizItems = <<"quiz0">>, !.quizTitle = "T0",
       !.slides = <<"slide0">>, !.slidesTitle = "T0"]

NoStorage ==
    [kind |-> "absent", type |-> "", version |-> 0, isArray |-> FALSE, sessions |-> <<>>]

\* useState<number | null>(null) of speakingIndex (App line 149); a message
\* index is counted from 1 here, and NoIndex is null
NoIndex == 0

\* No utterance was spoken yet
SpeechMounted == [speakingIndex |-> NoIndex, utterances |-> <<>>]

\* The state a SlidesView mounts with (SlidesView.tsx lines 50-52); deps is
\* the dependency list the navigation effect last ran with, none before
\* its first run; timeouts are the pending setTimeout callbacks, in order
SlidesViewMounted == [currentIndex |-> 0, deps |-> <<>>, timeouts |-> <<>>]

\* The state a FlashcardsView mounts with (FlashcardsView line 51)
FlashcardsViewMounted == [currentIndex |-> 0, deps |-> <<>>]

\* The state a QuizView mounts with (QuizView.tsx lines 80-87); timeLeft
\* NoTime is null, selectedOption "" is null, answers is a function from
\* the answered indexes to the options chosen
NoTime == -1
QuizViewMounted ==
    [quizState |-> "not-started", timeLeft |-> NoTime, currentIndex |-> 0,
     answers |-> <<>>, selectedOption |-> "", timeouts |-> <<>>]

ViewsMounted ==
    /\ speech = SpeechMounted
    /\ slidesView = SlidesViewMounted
    /\ flashcardsView = FlashcardsViewMounted
    /\ quizView = QuizViewMounted

\* The state once the mount effect has run on the stored list
InitApp(list, mode) ==
    /\ ViewsMounted
    /\ sessions = list
    /\ activeSessionId = IF list # <<>> THEN LatestSession(list).id ELSE NoSession
    /\ studyMode = mode
    /\ isLoading = FALSE
    /\ notifications = <<>>
    /\ streams = <<>>
    /\ summaries = <<>>
    /\ now = 3
    /\ crashed = FALSE
    /\ lastOp = Op("mount", NoSession, 0)
    /\ voice = VoiceMounted("app", IF list # <<>> THEN LatestSession(list).id ELSE NoSession,
                             IF list # <<>> THEN <<LatestSession(list)>> ELSE <<>>)
    /\ navigationCommand = NoCommand

Init ==
    /\ InitApp(<<>>, "chat")
    /\ storage = NoStorage
    /\ backups = {}
    /\ loaded = [threw |-> FALSE, value |-> <<>>]

IdsInUse == {sessions[i].id : i \in DOMAIN sessions}

\* The session a message sent now goes to (lines 343-354)
SendTarget == IF activeSessionId = NoSession THEN now ELSE activeSessionId

\* Guards that bound the model
CanCreate(cap) == Len(sessions) < cap
CanSend(sessionCap, streamCap, messageCap) ==
    /\ activeSessionId = NoSession => Len(sessions) < sessionCap
    /\ Len(streams) < streamCap
    /\ \A i \in WithId(sessions, SendTarget) : Len(sessions[i].messages) + 2 <= messageCap
CanStream(i, cap) == i \in DOMAIN streams /\ Len(streams[i].chunks) < cap

Next ==
    \/ now < MaxTime /\ Tick
    \/ CanCreate(MaxSessions) /\ handleNewSession /\ UNCHANGED voiceVars
    \/ \E sid \in IdsInUse : handleLoadSession(sid)
    \/ goHome
    \/ \E sid \in IdsInUse : handleDeleteSession(sid)
    \/ \E prompt \in Prompts :
          CanSend(MaxSessions, MaxStreams, MaxMessages) /\ handleSendMessage(prompt, Null)
              /\ UNCHANGED voiceVars
    \/ \E idx \in 1..MaxMessages :
          CanSend(MaxSessions, MaxStreams, MaxMessages) /\ handleExplainMessage(idx)
    \/ \E idx \in 1..MaxMessages : handleDeleteMessage(idx)
    \/ \E i \in 1..MaxStreams, text \in AppFragments :
          CanStream(i, MaxChunks) /\ streamChunk(i, text, <<>>)
    \/ \E i \in 1..MaxStreams : streamComplete(i)
    \/ \E i \in 1..MaxStreams, error \in AppErrors : streamFail(i, error)

Spec == Init /\ [][Next]_vars

\* ------------------------------------------------ one chat turn, in full
\* A single turn on its own: the fragments are single tokens, so that every
\* text up to MaxTurnChunks tokens arrives, in every fragmentation.
TurnFragments == {<<"a">>, <<"s">>, <<"F">>, <<"j">>, <<"Pfc">>, <<"Pbad">>}
TurnErrors == {RateLimitError, EmptyError}

InitTurn ==
    /\ \/ InitApp(<<>>, "chat")
       \/ \E mode \in {"chat", "flashcards"} : InitApp(<<PriorSession>>, mode)
    /\ storage = NoStorage
    /\ backups = {}
    /\ loaded = [threw |-> FALSE, value |-> <<>>]

NextTurn ==
    \/ \E prompt \in Prompts, image \in {Null, "data:image/png;base64,AAAA"} :
          CanSend(1, 1, MaxMessages) /\ handleSendMessage(prompt, image)
              /\ UNCHANGED voiceVars
    \/ \E idx \in 1..MaxMessages :
          CanSend(1, 1, MaxMessages) /\ handleExplainMessage(idx)
    \/ \E text \in TurnFragments : CanStream(1, MaxTurnChunks) /\ streamChunk(1, text, <<>>)
    \/ streamComplete(1)
    \/ \E error \in TurnErrors : streamFail(1, error)

SpecTurn == InitTurn /\ [][NextTurn]_vars

\* ------------------------------------------- one chat turn, block by block
\* A single turn whose fragments are whole fenced blocks, an empty block
\* included, or single characters: texts with several blocks arrive.
Block(p) == <<"F", "j", p, "F">>
EmptyBlock == <<"F", "j", "F">>
AidBlocks == {Block(p) : p \in JsonValueTokens \cup {"Pbad"}} \cup {EmptyBlock}
AidFragments == AidBlocks \cup {<<"a">>, <<"s">>}
AllErrors == {RateLimitError, ApiKeyError, BadRequestError, UnavailableError,
              SafetyError, EmptyError, NotAnError}

NextAids ==
    \/ \E prompt \in Prompts : CanSend(1, 1, MaxMessages) /\ handleSendMessage(prompt, Null)
        /\ UNCHANGED voiceVars
    \/ \E idx \in 1..MaxMessages :
          CanSend(1, 1, MaxMessages) /\ handleExplainMessage(idx)
    \/ \E text \in AidFragments : CanStream(1, MaxAidChunks) /\ streamChunk(1, text, <<>>)
    \/ streamComplete(1)
    \/ \E error \in AllErrors : streamFail(1, error)

SpecAids == InitTurn /\ [][NextAids]_vars

\* ------------------------------------------------- the session list alone
InitSessions ==
    /\ \E list \in StoredLists : InitApp(list, "chat")
    /\ storage = NoStorage
    /\ backups = {}
    /\ loaded = [threw |-> FALSE, value |-> <<>>]

NextSessions ==
    \/ now < MaxListTime /\ Tick
    \/ CanCreate(MaxListSessions) /\ handleNewSession /\ UNCHANGED voiceVars
    \/ \E sid \in IdsInUse : handleLoadSession(sid)
    \/ goHome
    \/ \E sid \in IdsInUse : handleDeleteSession(sid)
    \/ \E prompt \in Prompts :
          CanSend(MaxListSessions, 1, MaxMessages) /\ handleSendMessage(prompt, Null)
              /\ UNCHANGED voiceVars
    \/ streamComplete(1)

SpecSessions == InitSessions /\ [][NextSessions]_vars

\* ------------------------------------------------- the document uploads
NextUploads ==
    \/ now < MaxListTime /\ Tick
    \/ CanCreate(MaxSessions) /\ Len(summaries) < MaxUploads /\ handleFileUpload
    \/ \E sid \in IdsInUse : handleLoadSession(sid)
    \/ \E sid \in IdsInUse : handleDeleteSession(sid)
    \/ \E i \in 1..MaxUploads, ok \in BOOLEAN : summaryArrives(i, ok, RateLimitError)

SpecUploads == InitSessions /\ [][NextUploads]_vars

\* --------------------------------------------- the citations of a stream
Uris == {"u1", "u2"}
Titles == {"t1", "t2"}
GroundingChunks ==
    [kind : {"web"}, uri : Uris, title : Titles, content : {Undefined}]
    \cup {[kind |-> "retrieved", uri |-> "u1", title |-> "t3", content |-> "excerpt"],
          [kind |-> "web", uri |-> "", title |-> "t1", content |-> Undefined],
          [kind |-> "none", uri |-> "", title |-> "", content |-> Undefined]}
Groundings == {<<>>} \cup {<<g>> : g \in GroundingChunks}

NextSources ==
    \/ \E prompt \in Prompts : CanSend(1, 1, MaxMessages) /\ handleSendMessage(prompt, Null)
        /\ UNCHANGED voiceVars
    \/ \E text \in {<<>>, <<"a">>}, grounding \in Groundings :
          CanStream(1, MaxSourceChunks) /\ streamChunk(1, text, grounding)
    \/ streamComplete(1)

SpecSources == Init /\ [][NextSources]_vars

\* --------------------------------------------------------- sessionService
CURRENT_DATA_VERSION == 1

\* JSON.stringify leaves out the properties whose value is undefined:
\* image of a Message, content of a Source
JsonOfSource(src) ==
    [key \in {k \in DOMAIN src : ~(k = "content" /\ src.content = Undefined)} |-> src[key]]

JsonOfMessage(m) ==
    [key \in {k \in DOMAIN m : ~(k = "image" /\ m.image = Undefined)} |->
        IF key = "sources"
        THEN [n \in DOMAIN m.sources |-> JsonOfSource(m.sources[n])]
        ELSE m[key]]

JsonOfSession(s) ==
    [s EXCEPT !.messages = [n \in DOMAIN s.messages |-> JsonOfMessage(s.messages[n])]]

JsonOfSessions(list) == [n \in DOMAIN list |-> JsonOfSession(list[n])]

\* The string under the session key. kind: "absent" (getItem returns null),
\* "denied" (getItem throws), "empty" (the empty string), "corrupt" (text that
\* is not JSON), "json". For "json", type tells the parsed value: "null",
\* "array" (a legacy list), "envelope" ({version, sessions}; isArray tells
\* whether sessions is an array) or "other".
Stored(kind, type, version, isArray, list) ==
    [kind |-> kind, type |-> type, version |-> version, isArray |-> isArray,
     sessions |-> list]

\* saveSessions lines 89-94: JSON.stringify({version, sessions})
JSONstringify(list) ==
    Stored("json", "envelope", CURRENT_DATA_VERSION, TRUE, JsonOfSessions(list))

\* migrateData, but an envelope of a newer version is not recognised
migrateData_RejectsNewer(data) ==
    IF data.type = "null" THEN [isArray |-> TRUE, value |-> <<>>]
    ELSE IF data.type = "array" THEN [isArray |-> TRUE, value |-> data.sessions]
    ELSE IF data.type = "envelope" /\ data.version <= CURRENT_DATA_VERSION
      THEN [isArray |-> data.isArray, value |-> data.sessions]
    ELSE [isArray |-> TRUE, value |-> <<>>]

\* migrateData, lines 19-54, on the parsed value; isArray tells whether the
\* returned value is an array
migrateData(data) ==
    IF data.type = "null" THEN [isArray |-> TRUE, value |-> <<>>]
    ELSE IF data.type = "array" THEN [isArray |-> TRUE, value |-> data.sessions]
    ELSE IF data.type = "envelope" THEN
        IF data.version = CURRENT_DATA_VERSION
          THEN [isArray |-> data.isArray, value |-> data.sessions]
        ELSE IF data.version < CURRENT_DATA_VERSION
          THEN [isArray |-> data.isArray, value |-> data.sessions]
        ELSE [isArray |-> data.isArray, value |-> data.sessions]
    ELSE [isArray |-> TRUE, value |-> <<>>]

\* loadSessions lines 57-85: the returned list, or threw when the getItem of
\* the catch block throws too
LoadResult(stored) ==
    IF stored.kind = "denied" THEN [threw |-> TRUE, value |-> <<>>]
    ELSE IF stored.kind = "json" /\ migrateData(stored).isArray
      THEN [threw |-> FALSE, value |-> migrateData(stored).value]
    ELSE [threw |-> FALSE, value |-> <<>>]

\* k tells what ran just before: 1 a saveSessions that wrote, 2 one whose
\* setItem threw, 0 anything else. backupOk: the setItem of the backup works.
loadSessions(backupOk) ==
    /\ loaded' = LoadResult(storage)
    /\ backups' = IF storage.kind = "corrupt" /\ backupOk
                  THEN backups \cup {[time |-> now, data |-> storage]}
                  ELSE backups
    /\ lastOp' = Op("loadSessions", NoSession,
                    IF lastOp.op = "saveSessions" THEN lastOp.k ELSE 0)
    /\ UNCHANGED <<sessions, activeSessionId, studyMode, isLoading, notifications,
                   streams, summaries, now, crashed, storage, voice, navigationCommand,
                   speech, slidesView, flashcardsView, quizView>>

\* saveSessions, but an empty list is not written
saveSessions_SkipsEmpty(writeOk) ==
    /\ storage' = IF writeOk /\ storage.kind # "denied" /\ sessions # <<>>
                  THEN JSONstringify(sessions) ELSE storage
    /\ lastOp' = Op("saveSessions", NoSession,
                    IF writeOk /\ storage.kind # "denied" THEN 1 ELSE 2)
    /\ UNCHANGED <<sessions, activeSessionId, studyMode, isLoading, notifications,
                   streams, summaries, now, crashed, backups, loaded, voice, navigationCommand,
                   speech, slidesView, flashcardsView, quizView>>

\* saveSessions lines 87-98; writeOk: setItem does not throw
saveSessions(writeOk) ==
    /\ storage' = IF writeOk /\ storage.kind # "denied"
                  THEN JSONstringify(sessions) ELSE storage
    /\ lastOp' = Op("saveSessions", NoSession,
                    IF writeOk /\ storage.kind # "denied" THEN 1 ELSE 2)
    /\ UNCHANGED <<sessions, activeSessionId, studyMode, isLoading, notifications,
                   streams, summaries, now, crashed, backups, loaded, voice, navigationCommand,
                   speech, slidesView, flashcardsView, quizView>>

\* ------------------------------------------------ the persistence effect
\* useEffect(() => saveSessions(sessions), [sessions]), part_000 lines
\* 203-205: the effect is due after the mount and after every handler that
\* called setSessions, each call passing a new array; a crashed tree runs no
\* effect.
SetSessionsOps == {"mount", "handleNewSession", "handleDeleteSession", "handleSendMessage",
                   "handleExplainMessage", "handleDeleteMessage", "streamComplete",
                   "streamFail", "handleFileUpload", "summaryArrives"}

EffectPending ==
    /\ ~crashed
    /\ \/ lastOp.op \in SetSessionsOps
       \/ lastOp.op = "streamChunk" /\ Last(streams[lastOp.k].chunks).text # <<>>

saveEffect == EffectPending /\ saveSessions(TRUE)

\* After the first pass of the mount effects: the load effect (lines 155-169)
\* has put the stored list into the state, the save effect has written the
\* initial empty list, and the save effect of the loaded list is due.
InitPersist ==
    /\ \E list \in StoredLists : InitApp(list, "chat") /\ loaded = [threw |-> FALSE, value |-> list]
    /\ storage = JSONstringify(<<>>)
    /\ backups = {}

NextPersist ==
    \/ saveEffect
    \/ ~EffectPending /\ CanCreate(MaxPersistSessions) /\ handleNewSession
          /\ UNCHANGED voiceVars
    \/ \E sid \in IdsInUse : ~EffectPending /\ handleLoadSession(sid)
    \/ ~EffectPending /\ goHome
    \/ \E sid \in IdsInUse : ~EffectPending /\ handleDeleteSession(sid)
    \/ \E prompt \in Prompts :
          /\ ~EffectPending
          /\ CanSend(MaxPersistSessions, 1, MaxMessages)
          /\ handleSendMessage(prompt, Null)
          /\ UNCHANGED voiceVars
    \/ \E idx \in 1..MaxMessages :
          /\ ~EffectPending
          /\ CanSend(MaxPersistSessions, 1, MaxMessages)
          /\ handleExplainMessage(idx)
    \/ \E idx \in 1..MaxMessages : ~EffectPending /\ handleDeleteMessage(idx)
    \/ \E text \in {<<>>, <<"a">>} :
          ~EffectPending /\ CanStream(1, MaxChunks) /\ streamChunk(1, text, <<>>)
    \/ ~EffectPending /\ streamComplete(1)
    \/ \E error \in AppErrors : ~EffectPending /\ streamFail(1, error)
    \/ /\ ~EffectPending
       /\ CanCreate(MaxPersistSessions)
       /\ Len(summaries) < MaxUploads
       /\ handleFileUpload
    \/ \E i \in 1..MaxUploads, ok \in BOOLEAN :
          ~EffectPending /\ summaryArrives(i, ok, RateLimitError)

SpecPersist == InitPersist /\ [][NextPersist]_vars

\* The message shapes the application writes
ASource == [uri |-> "u1", title |-> "t1"]
ARetrievedSource == [uri |-> "u2", title |-> "t2", content |-> Undefined]
MessageShapes ==
    {UserMessage(<<"q">>, Null),
     UserMessage(<<"q">>, "data:image/png;base64,AAAA"),
     ExplainMessage(<<"a">>),
     PlaceholderMessage,
     FinalMessage(<<PlaceholderMessage>>, <<"a">>, <<ASource, ARetrievedSource>>),
     ErrorMessage(TextOf(handleApiError(RateLimitError)))}

RECURSIVE SeqsUpTo(_, _)
SeqsUpTo(S, n) ==
    IF n = 0 THEN {<<>>}
    ELSE SeqsUpTo(S, n - 1) \cup
         {Append(q, x) : q \in {r \in SeqsUpTo(S, n - 1) : Len(r) = n - 1}, x \in S}

SessionShapes ==
    {[createNewSession(1) EXCEPT !.messages = msgs] :
        msgs \in SeqsUpTo(MessageShapes, MaxStoreMessages)}

SessionLists == SeqsUpTo(SessionShapes, MaxStoreSessions)

\* What an earlier run, or an earlier version of the application, left
StoredPayloads ==
    {Stored(kind, "", 0, FALSE, <<>>) : kind \in {"absent", "denied", "empty", "corrupt"}}
    \cup {Stored("json", type, 0, FALSE, <<>>) : type \in {"null", "other"}}
    \cup {Stored("json", "envelope", CURRENT_DATA_VERSION, FALSE, <<>>)}
    \cup {Stored("json", "array", 0, TRUE, JsonOfSessions(list)) : list \in SessionLists}
    \cup {Stored("json", "envelope", v, TRUE, JsonOfSessions(list)) :
            v \in {CURRENT_DATA_VERSION - 1, CURRENT_DATA_VERSION, CURRENT_DATA_VERSION + 1},
            list \in SessionLists}

NoLoad == [threw |-> FALSE, value |-> <<>>]

InitStore ==
    /\ \/ sessions \in SessionLists /\ storage = NoStorage
       \/ sessions = <<>> /\ storage \in StoredPayloads
    /\ activeSessionId = NoSession
    /\ studyMode = "chat"
    /\ isLoading = FALSE
    /\ notifications = <<>>
    /\ streams = <<>>
    /\ summaries = <<>>
    /\ now = 3
    /\ crashed = FALSE
    /\ backups = {}
    /\ loaded = NoLoad
    /\ lastOp = Op("mount", NoSession, 0)
    /\ voice = VoiceMounted("app", NoSession, <<>>)
    /\ navigationCommand = NoCommand
    /\ ViewsMounted

NextStore ==
    \/ \E writeOk \in BOOLEAN : saveSessions(writeOk)
    \/ \E backupOk \in BOOLEAN : loadSessions(backupOk)

SpecStore == InitStore /\ [][NextStore]_vars

\* ------------------------------------------------------ useVoiceCommands
\* isListeningRef follows isListening through the effect at lines 57-59,
\* which runs before the next event: the two are one field. The interim
\* transcript is displayed only and is left out.

\* stopListening, lines 61-66, on the hook's state: stop() is called on the
\* recognizer recognitionRef holds, and ends it if it was started
Stopped(v) ==
    IF v.isListening
    THEN [v EXCEPT !.isListening = FALSE,
                   !.current.state = IF @ = "active" THEN "stopping" ELSE @]
    ELSE v

\* The recognizers that can deliver events: the one recognitionRef holds and
\* those of earlier renders that were started and have not ended
Recognizers == {<<"current", voice.current>>} \cup {<<"detached", r>> : r \in voice.detached}

\* A recognizer's state after one of its events
WithState(v, which, r, state) ==
    IF which = "current" THEN [v EXCEPT !.current.state = state]
    ELSE [v EXCEPT !.detached = (@ \ {r}) \cup
                        (IF state = "idle" THEN {} ELSE {[r EXCEPT !.state = state]})]

\* What the tables of the current render read
CapturedNow ==
    <<activeSessionId, IF activeSession = 0 THEN <<>> ELSE <<sessions[activeSession]>>>>

\* processTranscript changes with the tables (lines 96, 146), and the tables
\* with activeSession and activeSessionId (App lines 487, 374, 494)
VoiceEffectPending == ~crashed /\ voice.deps # CapturedNow

\* The effect at lines 98-146 runs again: its cleanup stops the recognizer of
\* the previous render, and recognitionRef receives a new one, not started
voiceEffect ==
    /\ VoiceEffectPending
    /\ voice' = [voice EXCEPT
                   !.deps = CapturedNow,
                   !.current = Recognizer(CapturedNow[1], CapturedNow[2]),
                   !.detached = @ \cup (IF voice.current.state = "idle" THEN {}
                                        ELSE {[voice.current EXCEPT !.state = "stopping"]})]
    /\ lastOp' = Op("voiceEffect", NoSession, 0)
    /\ UNCHANGED <<sessions, activeSessionId, studyMode, isLoading, notifications,
                   streams, summaries, now, crashed, storage, backups, loaded,
                   navigationCommand,
                   speech, slidesView, flashcardsView, quizView>>

\* startListening, lines 148-154; start() on a recognizer that has not ended
\* throws after the state was set
startListening ==
    /\ ~crashed
    /\ ~voice.isListening
    /\ voice' = [voice EXCEPT !.isListening = TRUE,
                              !.current.state = IF @ = "idle" THEN "active" ELSE @]
    /\ lastOp' = Op("startListening", NoSession, 0)
    /\ UNCHANGED <<sessions, activeSessionId, studyMode, isLoading, notifications,
                   streams, summaries, now, crashed, storage, backups, loaded,
                   navigationCommand,
                   speech, slidesView, flashcardsView, quizView>>

\* stopListening, lines 61-66, from the interface
stopListening ==
    /\ ~crashed
    /\ voice' = Stopped(voice)
    /\ lastOp' = Op("stopListening", NoSession, 0)
    /\ UNCHANGED <<sessions, activeSessionId, studyMode, isLoading, notifications,
                   streams, summaries, now, crashed, storage, backups, loaded,
                   navigationCommand,
                   speech, slidesView, flashcardsView, quizView>>

\* recognition.onend, lines 133-139: the service timed out or stop() took effect
onend(which, r) ==
    /\ ~crashed
    /\ r.state \in {"active", "stopping"}
    /\ voice' = WithState(voice, which, r, IF voice.isListening THEN "active" ELSE "idle")
    /\ lastOp' = Op("onend", NoSession, 0)
    /\ UNCHANGED <<sessions, activeSessionId, studyMode, isLoading, notifications,
                   streams, summaries, now, crashed, storage, backups, loaded,
                   navigationCommand,
                   speech, slidesView, flashcardsView, quizView>>

\* recognition.onerror, lines 126-131; the recognizer ends after an error
onerror(which, r) ==
    /\ ~crashed
    /\ r.state = "active"
    /\ voice' = Stopped(WithState(voice, which, r, "stopping"))
    /\ lastOp' = Op("onerror", NoSession, 0)
    /\ UNCHANGED <<sessions, activeSessionId, studyMode, isLoading, notifications,
                   streams, summaries, now, crashed, storage, backups, loaded,
                   navigationCommand,
                   speech, slidesView, flashcardsView, quizView>>

\* activeSession?.<aid>?.length of the render the tables were built in
CapturedHas(r, action) ==
    /\ r.captured # <<>>
    /\ CASE action = "showFlashcards" -> r.captured[1].flashcards # <<>>
         [] action = "openQuiz"       -> r.captured[1].quizItems # <<>>
         [] action = "viewSlides"     -> r.captured[1].slides # <<>>

ModeOf(action) ==
    CASE action = "showFlashcards" -> "flashcards"
      [] action = "openQuiz"       -> "quiz"
      [] action = "viewSlides"     -> "slides"
      [] action = "goToChat"       -> "chat"

\* The callbacks of the tables, App lines 472-494, as recognizer r holds them
RunCommands(r, ran) ==
    LET action == IF ran = <<>> THEN "none" ELSE ran[1].action
    IN  CASE action = "handleNewSession" ->
               handleNewSession /\ UNCHANGED navigationCommand
          [] action = "handleSendMessage" ->
               sendMessageFrom(r.capturedId, ToTokens(ran[1].argument), Null)
               /\ UNCHANGED navigationCommand
          [] action \in {"showFlashcards", "openQuiz", "viewSlides", "goToChat"} ->
               /\ studyMode' = IF action = "goToChat" \/ CapturedHas(r, action)
                               THEN ModeOf(action) ELSE studyMode
               /\ lastOp' = Op("setStudyMode", NoSession, 0)
               /\ UNCHANGED <<sessions, activeSessionId, isLoading, notifications,
                              streams, summaries, now, crashed, storage, backups,
                              loaded, navigationCommand,
                   speech, slidesView, flashcardsView, quizView>>
          [] action \in {"next", "prev"} ->
               /\ navigationCommand' = [command |-> action, timestamp |-> now]
               /\ lastOp' = Op("setNavigationCommand", NoSession, 0)
               /\ UNCHANGED <<sessions, activeSessionId, studyMode, isLoading,
                              notifications, streams, summaries, now, crashed,
                              storage, backups, loaded,
                   speech, slidesView, flashcardsView, quizView>>
          [] OTHER ->
               /\ lastOp' = Op("processTranscript", NoSession, 0)
               /\ UNCHANGED <<sessions, activeSessionId, studyMode, isLoading,
                              notifications, streams, summaries, now, crashed,
                              storage, backups, loaded, navigationCommand,
                   speech, slidesView, flashcardsView, quizView>>

\* What the recognizer hears, with the whitespace and the capitals it may
\* put around and into a transcript
\* New session, show flashcards, go to chat, next, ask x, Tell me x, ask,
\* Cancel, stop listening, constructor
Heard ==
    {<<"N", "e", "w", " ", "s", "e", "s", "s", "i", "o", "n">>,
     <<"s", "h", "o", "w", " ", "f", "l", "a", "s", "h", "c", "a", "r", "d", "s">>,
     <<"g", "o", " ", "t", "o", " ", "c", "h", "a", "t">>,
     <<"n", "e", "x", "t">>,
     <<"a", "s", "k", " ", "x">>,
     <<"T", "e", "l", "l", " ", "m", "e", " ", "x">>,
     <<"a", "s", "k">>,
     <<"C", "a", "n", "c", "e", "l">>,
     <<"s", "t", "o", "p", " ", "l", "i", "s", "t", "e", "n", "i", "n", "g">>,
     <<"c", "o", "n", "s", "t", "r", "u", "c", "t", "o", "r">>}

\* The utterances that also arrive with whitespace around them
Padded ==
    {<<"N", "e", "w", " ", "s", "e", "s", "s", "i", "o", "n">>,
     <<"a", "s", "k", " ", "x">>,
     <<"C", "a", "n", "c", "e", "l">>}
Utterances ==
    Heard \cup {<<" ">> \o core \o <<" ">> : core \in Padded}
          \cup {<<" ", " ">> \o <<"a", "s", "k", " ", "x">>}

\* processTranscript's outcome for every utterance, under either pair of tables
Dispatched ==
    [tables \in TableNames |->
        [text \in Utterances |->
            Dispatch(StaticCommands(tables), DynamicCommands(tables), text)]]

\* recognition.onresult, lines 110-124, with a final transcript, and
\* processTranscript, lines 68-96
onresult(which, r, text) ==
    LET d == Dispatched[voice.tables][text]
    IN  /\ ~crashed
        /\ r.state \in {"active", "stopping"}
        /\ text # <<>>
        /\ voice' = [(IF d.stop THEN Stopped(voice) ELSE voice) EXCEPT !.ran = d.ran]
        /\ RunCommands(r, d.ran)

\* ------------------------------------------------ the voice commands
\* No stored session, or one with flashcards
VoiceLists == {<<>>, <<[StoredSession(1, 2) EXCEPT !.flashcards = <<"card0">>,
                                                   !.flashcardsTitle = "T0"]>>}

\* The dispatches that add a session or a stream stop at the bound
CanDispatch(r, text) ==
    LET ran == Dispatched[voice.tables][text].ran
        action == IF ran = <<>> THEN "none" ELSE ran[1].action
    IN  action \in {"handleNewSession", "handleSendMessage"}
            => Len(sessions) + Len(streams) < MaxVoiceLoad

InitVoice ==
    /\ \E list \in VoiceLists, tables \in TableNames :
          /\ sessions = list
          /\ activeSessionId = IF list # <<>> THEN LatestSession(list).id ELSE NoSession
          /\ voice = VoiceMounted(tables,
                                  IF list # <<>> THEN LatestSession(list).id ELSE NoSession,
                                  IF list # <<>> THEN <<LatestSession(list)>> ELSE <<>>)
    /\ studyMode = "chat"
    /\ isLoading = FALSE
    /\ notifications = <<>>
    /\ streams = <<>>
    /\ summaries = <<>>
    /\ now = 3
    /\ crashed = FALSE
    /\ storage = NoStorage
    /\ backups = {}
    /\ loaded = [threw |-> FALSE, value |-> <<>>]
    /\ ViewsMounted
    /\ navigationCommand = NoCommand
    /\ lastOp = Op("mount", NoSession, 0)

\* The effect runs before the next event is handled
NextVoice ==
    \/ voiceEffect
    \/ ~VoiceEffectPending /\ Cardinality(voice.detached) < MaxDetached /\ startListening
    \/ ~VoiceEffectPending /\ stopListening
    \/ \E src \in Recognizers, text \in Utterances :
          ~VoiceEffectPending /\ CanDispatch(src[2], text) /\ onresult(src[1], src[2], text)
    \/ \E src \in Recognizers : ~VoiceEffectPending /\ onend(src[1], src[2])
    \/ \E src \in Recognizers : ~VoiceEffectPending /\ onerror(src[1], src[2])
    \/ \E sid \in IdsInUse : ~VoiceEffectPending /\ handleLoadSession(sid)

SpecVoice == InitVoice /\ [][NextVoice]_vars

\* -------------------------------------------------------------- claims
\* The fragments of a stream, concatenated in arrival order
RECURSIVE ConcatTexts(_)
ConcatTexts(chunks) ==
    IF chunks = <<>> THEN <<>>
    ELSE ConcatTexts(Front(chunks)) \o Last(chunks).text

\* The text holds a fenced json block: an opening fence with the json tag and
\* a later closing fence
HasFencedBlock(text) ==
    \E i, k \in 1..Len(text) :
        text[i] = "F" /\ i + 1 <= Len(text) /\ text[i + 1] = "j" /\ k >= i + 2 /\ text[k] = "F"

\* The text is one fenced json block around the JSON value tok and nothing else
IsSoleBlock(text, tok) ==
    /\ Len(text) >= 4
    /\ text[1] = "F" /\ text[2] = "j" /\ Last(text) = "F"
    /\ \E p \in 3..(Len(text) - 1) :
          /\ text[p] = tok
          /\ \A m \in (3..(Len(text) - 1)) \ {p} : IsWs(text[m])

TargetsOf(i) == WithId(sessions, streams[i].sessionId)

\* C1: once processResponse has finished, by completion or by failure, the
\* last message of the target session is not an assistant message with empty
\* content.
C1_NoUnfinishedPlaceholder ==
    lastOp.op \in {"streamComplete", "streamFail"} =>
        \A i \in WithId(sessions, lastOp.sid) :
            sessions[i].messages # <<>> =>
                ~IsUnfinishedPlaceholder(Last(sessions[i].messages))

\* C2: in a turn on its own, while the stream runs the placeholder holds the
\* concatenation of the fragments received so far, and once a stream without
\* a fenced json block is reconciled the message holds the concatenation of
\* all its fragments.
C2_ContentIsConcatenation ==
    \A i \in DOMAIN streams :
        LET text == ConcatTexts(streams[i].chunks)
        IN  /\ TargetsOf(i) # {}
            /\ \A n \in TargetsOf(i) :
                 /\ streams[i].status = "streaming" =>
                        /\ RoleOf(Last(sessions[n].messages)) = "assistant"
                        /\ Last(sessions[n].messages).content = text
                 /\ (streams[i].status = "done" /\ ~HasFencedBlock(text)) =>
                        /\ RoleOf(Last(sessions[n].messages)) = "assistant"
                        /\ Last(sessions[n].messages).content = text

C2_Witness ==
    /\ lastOp.op = "streamComplete"
    /\ Len(streams[1].chunks) >= 3
    /\ ~HasFencedBlock(ConcatTexts(streams[1].chunks))
    /\ \E k \in DOMAIN streams[1].chunks : streams[1].chunks[k].text = <<"F">>
    /\ Last(sessions[1].messages).content = ConcatTexts(streams[1].chunks)

\* C3: a stream whose full text is one fenced json block holding an object
\* with a title and a non-empty flashcards array leaves the target session
\* with that title and those flashcards, the display mode flashcards, and the
\* fallback sentence as the message text.
C3_FlashcardsBlock ==
    \A i \in DOMAIN streams :
        (streams[i].status = "done" /\ IsSoleBlock(ConcatTexts(streams[i].chunks), "Pfc")) =>
            /\ studyMode = "flashcards"
            /\ \A n \in TargetsOf(i) :
                 /\ sessions[n].flashcardsTitle = ParsedJson("Pfc").title
                 /\ sessions[n].flashcards = ParsedJson("Pfc").flashcards.items
                 /\ Last(sessions[n].messages).content =
                        <<"I've created the \"", ParsedJson("Pfc").title, "\" for you.">>
                 /\ RoleOf(Last(sessions[n].messages)) = "assistant"

C3_Witness ==
    /\ lastOp.op = "streamComplete"
    /\ IsSoleBlock(ConcatTexts(streams[1].chunks), "Pfc")
    /\ Len(streams[1].chunks) = 5
    /\ sessions[1].flashcards = <<"card1">>
    /\ sessions[1].quizItems = <<"quiz0">>

\* C4: when the first fenced json block does not parse, reconciliation keeps
\* the full text, fence included, as the message content, leaves the six aid
\* fields and the display mode as they were, adds no notification and writes
\* no error message.
UnparsedBlock(text) == JsonMatch(text).found /\ ~JsonParses(JsonMatch(text).group)

AidFields(s) == <<s.flashcards, s.flashcardsTitle, s.quizItems, s.quizTitle,
                  s.slides, s.slidesTitle>>

C4_MalformedJsonKeepsText ==
    [][(lastOp'.op = "streamComplete" /\ UnparsedBlock(streams[lastOp'.k].fullText)) =>
          /\ studyMode' = studyMode
          /\ notifications' = notifications
          /\ Len(sessions') = Len(sessions)
          /\ \A n \in DOMAIN sessions :
               /\ AidFields(sessions'[n]) = AidFields(sessions[n])
               /\ sessions[n].id = streams[lastOp'.k].sessionId =>
                    /\ Last(sessions'[n].messages).content
                         = ConcatTexts(streams[lastOp'.k].chunks)
                    /\ Last(sessions'[n].messages)
                         = [Last(sessions[n].messages) EXCEPT
                              !.content = streams[lastOp'.k].fullText]
                    /\ Len(sessions'[n].messages) = Len(sessions[n].messages)]_vars

C4_Witness ==
    /\ lastOp.op = "streamComplete"
    /\ UnparsedBlock(streams[1].fullText)
    /\ JsonMatch(streams[1].fullText).group = <<"Pbad">>
    /\ sessions[1].flashcards = <<"card0">>
    /\ studyMode = "flashcards"
    /\ Last(sessions[1].messages).content = streams[1].fullText

\* C5: the sources of the final message hold one entry per URI, the first one
\* seen in stream order.
RECURSIVE SeenSources(_)
SeenSources(chunks) ==
    IF chunks = <<>> THEN <<>>
    ELSE SeenSources(Front(chunks)) \o chunkSources(Last(chunks).grounding)

FirstSeen(seen, uri) ==
    seen[CHOOSE k \in DOMAIN seen :
            seen[k].uri = uri /\ \A m \in 1..(k - 1) : seen[m].uri # uri]

C5_FirstSeenSourceWins ==
    \A i \in DOMAIN streams :
        streams[i].status = "done" =>
            \A n \in TargetsOf(i) :
                LET attached == Last(sessions[n].messages).sources
                    seen == SeenSources(streams[i].chunks)
                IN  /\ \A a, b \in DOMAIN attached :
                          attached[a].uri = attached[b].uri => a = b
                    /\ \A k \in DOMAIN seen : \E a \in DOMAIN attached :
                          attached[a].uri = seen[k].uri
                    /\ \A a \in DOMAIN attached :
                          attached[a] = FirstSeen(seen, attached[a].uri)

\* C6: deleting the active session removes it, keeps the others, and makes
\* active a remaining session with the largest updatedAt, or none when the
\* list is empty.
C6_DeleteActiveSelectsLatest ==
    [][(lastOp'.op = "handleDeleteSession" /\ activeSessionId = lastOp'.sid) =>
          LET kept == {n \in DOMAIN sessions : sessions[n].id # activeSessionId}
          IN  /\ \A m \in DOMAIN sessions' : sessions'[m].id # activeSessionId
              /\ Len(sessions') = Cardinality(kept)
              /\ \A n \in kept : \E m \in DOMAIN sessions' : sessions'[m] = sessions[n]
              /\ IF kept = {} THEN activeSessionId' = NoSession
                 ELSE \E n \in kept :
                        /\ sessions[n].id = activeSessionId'
                        /\ \A m \in kept : sessions[m].updatedAt <= sessions[n].updatedAt]_vars

C6_Witness ==
    /\ lastOp.op = "handleDeleteSession"
    /\ lastOp.k = 1
    /\ Len(sessions) = 2
    /\ sessions[1].updatedAt < sessions[2].updatedAt
    /\ activeSessionId = sessions[2].id
    /\ sessions[1].id # sessions[2].id

\* C7: every mutation of a session leaves its updatedAt at the time of the
\* mutation.
C7_UpdatedAtRefreshed ==
    LET appended == /\ lastOp.op = "streamChunk"
                    /\ ~crashed
                    /\ Last(streams[lastOp.k].chunks).text # <<>>
    IN  (\/ lastOp.op \in {"handleSendMessage", "handleExplainMessage",
                           "handleDeleteMessage", "streamComplete", "streamFail",
                           "summaryArrives"}
         \/ appended) =>
            \A n \in WithId(sessions, lastOp.sid) : sessions[n].updatedAt = now

\* C8: loadSessions() right after a saveSessions(S) that wrote to storage
\* returns a list equal to S, field for field.
C8_RoundTripIsIdentity ==
    (lastOp.op = "loadSessions" /\ lastOp.k = 1) =>
        ~loaded.threw /\ loaded.value = sessions

\* C9: a stored legacy array, or a stored envelope of any version, loads
\* without a throw as the session list it holds.
C9_LoadsAnyVersion ==
    (/\ lastOp.op = "loadSessions"
     /\ storage.kind = "json"
     /\ storage.type \in {"array", "envelope"}
     /\ storage.isArray) =>
        ~loaded.threw /\ loaded.value = storage.sessions

C9_Witness ==
    /\ lastOp.op = "loadSessions" /\ lastOp.k = 0
    /\ storage.kind = "json" /\ storage.type = "envelope"
    /\ storage.version > CURRENT_DATA_VERSION
    /\ storage.sessions # <<>>
    /\ storage.sessions[1].messages # <<>>
    /\ loaded.value = storage.sessions

\* C10: a stream fragment or the final reconciliation of a stream whose target
\* session has been deleted leaves the session list unchanged and raises no
\* error.
C10_LateStreamIsNoOp ==
    [][(/\ lastOp'.op \in {"streamChunk", "streamComplete"}
        /\ lastOp'.k \in DOMAIN streams
        /\ streams[lastOp'.k].status = "streaming"
        /\ streams[lastOp'.k].targetDeleted) =>
          (sessions' = sessions /\ ~crashed')]_vars

\* The first fenced block among the fragments of stream i, each block being
\* one fragment: its position (0: none) and the payload it parses to.
BlocksOf(i) == {k \in DOMAIN streams[i].chunks : Len(streams[i].chunks[k].text) >= 3}

FirstBlock(i) ==
    IF BlocksOf(i) = {} THEN 0
    ELSE CHOOSE k \in BlocksOf(i) : \A m \in BlocksOf(i) : k <= m

FirstToken(i) ==
    IF FirstBlock(i) # 0 /\ Len(streams[i].chunks[FirstBlock(i)].text) = 4
    THEN streams[i].chunks[FirstBlock(i)].text[3] ELSE "none"

PayloadParsed(i) ==
    FirstToken(i) \in JsonValueTokens /\ ParsedJson(FirstToken(i)).isObject

Has(field) == field.kind = "array" /\ field.items # <<>>

Kinds == {"quiz", "flashcards", "slides"}

FieldOf(pj, kind) ==
    CASE kind = "quiz" -> pj.quiz
      [] kind = "flashcards" -> pj.flashcards
      [] kind = "slides" -> pj.slides

SlotOf(s, kind) ==
    CASE kind = "quiz" -> <<s.quizItems, s.quizTitle>>
      [] kind = "flashcards" -> <<s.flashcards, s.flashcardsTitle>>
      [] kind = "slides" -> <<s.slides, s.slidesTitle>>

\* C11: when the parsed payload carries several non-empty aid arrays, every
\* corresponding slot holds the payload's array and title, and the display
\* mode is slides if slides is present, else flashcards (quiz and flashcards
\* being the present ones).
C11_LastCheckedModeWins ==
    (lastOp.op = "streamComplete" /\ PayloadParsed(lastOp.k)) =>
        LET pj == ParsedJson(FirstToken(lastOp.k))
            present == {kind \in Kinds : Has(FieldOf(pj, kind))}
        IN  Cardinality(present) >= 2 =>
              /\ studyMode = IF "slides" \in present THEN "slides"
                             ELSE IF "flashcards" \in present THEN "flashcards"
                             ELSE "quiz"
              /\ \A n \in TargetsOf(lastOp.k) : \A kind \in present :
                    SlotOf(sessions[n], kind) = <<FieldOf(pj, kind).items, pj.title>>

C11_Witness ==
    /\ lastOp.op = "streamComplete"
    /\ FirstToken(1) = "Pqf"
    /\ studyMode = "flashcards"
    /\ sessions[1].quizItems = <<"quiz1">>
    /\ sessions[1].flashcards = <<"card1">>
    /\ sessions[1].slides = <<"slide0">>

\* C12: reconciliation with a parsed payload replaces the slot of a kind and
\* its title by the payload's array and title exactly when the payload's
\* field of that kind is a non-empty array; otherwise slot and title are
\* unchanged and the display mode is not switched to that kind.
C12_SlotReplacedIffNonEmpty ==
    [][(lastOp'.op = "streamComplete" /\ PayloadParsed(lastOp'.k)) =>
          LET pj == ParsedJson(FirstToken(lastOp'.k))
          IN  /\ Len(sessions') = Len(sessions)
              /\ \A kind \in Kinds :
                   /\ \A n \in TargetsOf(lastOp'.k) :
                        SlotOf(sessions'[n], kind) =
                           IF Has(FieldOf(pj, kind))
                           THEN <<FieldOf(pj, kind).items, pj.title>>
                           ELSE SlotOf(sessions[n], kind)
                   /\ ~Has(FieldOf(pj, kind)) =>
                        (studyMode' = kind => studyMode = kind)]_vars

C12_Witness ==
    /\ lastOp.op = "streamComplete"
    /\ FirstToken(1) = "Pmixed"
    /\ SlotOf(sessions[1], "quiz") = <<<<"quiz1">>, "T">>
    /\ SlotOf(sessions[1], "flashcards") = <<<<"card0">>, "T0">>
    /\ SlotOf(sessions[1], "slides") = <<<<"slide0">>, "T0">>
    /\ studyMode = "quiz"

\* The fragments of stream i but the first block, as one text
RECURSIVE ConcatBut(_, _)
ConcatBut(chunks, skip) ==
    IF chunks = <<>> THEN <<>>
    ELSE ConcatBut(Front(chunks), skip)
         \o (IF Len(chunks) = skip THEN <<>> ELSE Last(chunks).text)

AidExtracted(i) ==
    PayloadParsed(i) /\ \E kind \in Kinds : Has(FieldOf(ParsedJson(FirstToken(i)), kind))

\* C13: when the full text holds several fenced json blocks, the aids come
\* from the first block alone and only that block is stripped; when the first
\* block is malformed or holds no aid, no aid slot changes and the text is
\* kept whole, whatever the later blocks hold.
C13_OnlyFirstBlock ==
    [][(lastOp'.op = "streamComplete" /\ Cardinality(BlocksOf(lastOp'.k)) >= 2) =>
          LET i == lastOp'.k
              pj == ParsedJson(FirstToken(i))
              chunks == streams[i].chunks
          IN  \A n \in TargetsOf(i) :
                IF AidExtracted(i)
                THEN /\ \A kind \in Kinds :
                          SlotOf(sessions'[n], kind) =
                             IF Has(FieldOf(pj, kind))
                             THEN <<FieldOf(pj, kind).items, pj.title>>
                             ELSE SlotOf(sessions[n], kind)
                     /\ Last(sessions'[n].messages).content =
                           Trim(ConcatBut(chunks, FirstBlock(i)))
                ELSE /\ AidFields(sessions'[n]) = AidFields(sessions[n])
                     /\ studyMode' = studyMode
                     /\ Last(sessions'[n].messages).content = ConcatTexts(chunks)]_vars

C13_Witness ==
    /\ lastOp.op = "streamComplete"
    /\ Len(streams[1].chunks) = 2
    /\ streams[1].chunks[1].text = Block("Pempty")
    /\ streams[1].chunks[2].text = Block("Pfc")
    /\ sessions[1].flashcards = <<"card0">>
    /\ Last(sessions[1].messages).content = Block("Pempty") \o Block("Pfc")

\* C14: when an aid was extracted the message text is the full text without
\* the matched block, trimmed, or the fallback sentence with the payload's
\* title when nothing is left; when no aid was extracted it is the full text.
C14_VisibleText ==
    lastOp.op = "streamComplete" =>
        LET i == lastOp.k
            rest == Trim(ConcatBut(streams[i].chunks, FirstBlock(i)))
        IN  \A n \in TargetsOf(i) :
              Last(sessions[n].messages).content =
                 IF AidExtracted(i)
                 THEN (IF rest = <<>>
                       THEN <<"I've created the \"", ParsedJson(FirstToken(i)).title,
                              "\" for you.">>
                       ELSE rest)
                 ELSE ConcatTexts(streams[i].chunks)

C14_Witness ==
    /\ lastOp.op = "streamComplete"
    /\ Len(streams[1].chunks) = 3
    /\ streams[1].chunks[1].text = <<"s">>
    /\ streams[1].chunks[2].text = Block("Pquiz")
    /\ streams[1].chunks[3].text = <<"a">>
    /\ Last(sessions[1].messages).content = <<"a">>

\* C15: when the generation call or the stream of a turn fails, the
\* placeholder of the turn is replaced by an assistant message holding the
\* classified error message, one error notification with that message is
\* added, isLoading is false, and no aid slot and no display mode changes.
C15_FailureReplacesPlaceholder ==
    [][\A error \in AllErrors :
          (lastOp'.op = "streamFail" /\ streamFail(lastOp'.k, error)) =>
             LET i == lastOp'.k
                 classified == handleApiError(error)
             IN  /\ TargetsOf(i) # {}
                 /\ \A n \in TargetsOf(i) :
                      /\ RoleOf(Last(sessions[n].messages)) = "assistant"
                      /\ Last(sessions[n].messages).content = ConcatTexts(streams[i].chunks)
                      /\ sessions'[n].messages =
                            Front(sessions[n].messages)
                            \o <<[role |-> "assistant", content |-> TextOf(classified)]>>
                      /\ AidFields(sessions'[n]) = AidFields(sessions[n])
                 /\ notifications' =
                       Append(notifications, [title |-> "Error", message |-> classified,
                                              type |-> "error"])
                 /\ ~isLoading'
                 /\ studyMode' = studyMode]_vars

C15_Witness ==
    /\ lastOp.op = "streamFail"
    /\ streams[1].chunks # <<>>
    /\ Len(notifications) = 1
    /\ Last(sessions[1].messages) =
          [role |-> "assistant",
           content |-> <<"The AI service is currently unavailable. Please try again later.">>]
    /\ sessions[1].flashcards = <<"card0">>
    /\ studyMode = "flashcards"

\* C16: when the stored payload is not valid JSON, loadSessions returns the
\* empty list without a throw and writes the payload unchanged under the
\* backup key of the current time; when that write fails, nothing is written
\* and the empty list is returned all the same.
C16_CorruptPayloadBackedUp ==
    [][\A backupOk \in BOOLEAN :
          (storage.kind \in {"corrupt", "empty"} /\ loadSessions(backupOk)) =>
             /\ ~loaded'.threw
             /\ loaded'.value = <<>>
             /\ storage' = storage
             /\ backupOk => [time |-> now, data |-> storage] \in backups'
             /\ ~backupOk => backups' = backups]_vars

Lowered(text) == trim(toLowerCase(text))

\* The phrases of the static table and the dynamic rules of the hook
StaticPhrases == DOMAIN StaticCommands(voice.tables)
DynamicRules == DynamicCommands(voice.tables)

\* The (rule, keyword) positions whose keyword, followed by a space, is a
\* prefix of the utterance
PrefixPositions(text) ==
    {m \in UNION {{<<c, k>> : k \in DOMAIN DynamicRules[c].keywords} : c \in DOMAIN DynamicRules} :
        LET keyword == DynamicRules[m[1]].keywords[m[2]]
        IN  /\ Len(Lowered(text)) > Len(keyword)
            /\ \A i \in 1..Len(keyword) : Lowered(text)[i] = keyword[i]
            /\ Lowered(text)[Len(keyword) + 1] = " "}

\* The first position in table order, then keyword order
FirstPosition(text) ==
    CHOOSE m \in PrefixPositions(text) :
        \A o \in PrefixPositions(text) : m[1] < o[1] \/ (m[1] = o[1] /\ m[2] <= o[2])

\* C18: a final utterance runs at most one action: the static action of the
\* phrase it equals once lower-cased and trimmed; otherwise the action of the
\* first dynamic rule (table order, then keyword order) with a keyword that,
\* followed by a space, starts the text; otherwise no action, and listening
\* continues (the reserved phrases, which end it, aside).
C18_DispatchRunsOneAction ==
    [][\A src \in Recognizers, text \in Utterances :
          onresult(src[1], src[2], text) =>
             /\ Len(voice'.ran) <= 1
             /\ Lowered(text) \in StaticPhrases =>
                   /\ Len(voice'.ran) = 1
                   /\ voice'.ran[1].table = "static"
                   /\ voice'.ran[1].action = StaticCommands(voice.tables)[Lowered(text)]
             /\ (Lowered(text) \notin StaticPhrases /\ PrefixPositions(text) # {}) =>
                   /\ Len(voice'.ran) = 1
                   /\ voice'.ran[1].table = "dynamic"
                   /\ voice'.ran[1].action = DynamicRules[FirstPosition(text)[1]].action
             /\ (Lowered(text) \notin StaticPhrases /\ PrefixPositions(text) = {}) =>
                   /\ voice'.ran = <<>>
                   /\ Lowered(text) \notin {StopListeningPhrase, Cancel} =>
                         /\ voice'.isListening = voice.isListening
                         /\ voice'.current = voice.current
                         /\ voice'.detached = voice.detached]_vars

\* The number of whitespace characters an utterance begins with
LeadingSpaces(text) ==
    IF \A i \in DOMAIN text : text[i] = " " THEN Len(text)
    ELSE (CHOOSE i \in DOMAIN text : text[i] # " " /\ \A k \in 1..(i - 1) : text[k] = " ") - 1

\* What follows the keyword and the space after it in the utterance
Remainder(text, keyword) ==
    SubSeq(text, LeadingSpaces(text) + Len(keyword) + 2, Len(text))

\* C19: when an utterance matches a dynamic rule through keyword k, the
\* rule's action receives exactly what follows k and the space after it in
\* the utterance, also when the utterance begins with whitespace.
C19_ArgumentIsRemainder ==
    [][\A src \in Recognizers, text \in Utterances :
          (/\ onresult(src[1], src[2], text)
           /\ Len(voice'.ran) = 1
           /\ voice'.ran[1].table = "dynamic") =>
             LET m == FirstPosition(text)
             IN  voice'.ran[1].argument = Remainder(text, DynamicRules[m[1]].keywords[m[2]])]_vars

\* The recognizers that are capturing speech
ActiveRecognizers(v) ==
    (IF v.current.state = "active" THEN {v.current} ELSE {})
    \cup {r \in v.detached : r.state = "active"}

\* C20: whenever a final utterance is 'stop listening' or 'cancel' once
\* lower-cased and trimmed while listening is on, the listening ends:
\* isListening becomes false and no recognizer goes on capturing, whatever
\* the static and dynamic tables contain.
C20_ReservedPhraseEndsListening ==
    [][\A src \in Recognizers, text \in Utterances :
          (/\ onresult(src[1], src[2], text)
           /\ voice.isListening
           /\ Lowered(text) \in {StopListeningPhrase, Cancel}) =>
             /\ ~voice'.isListening
             /\ ActiveRecognizers(voice') = {}]_vars

\* ------------------------------------------- speech synthesis (App 437-469)
MaxUtterances == 3

\* window.speechSynthesis.speaking
Speaking(s) == \E k \in DOMAIN s.utterances : s.utterances[k].status = "speaking"

\* window.speechSynthesis.cancel(): the utterance stops at once; its end or
\* error event is queued and its callback runs in a later task
cancel(utterances) ==
    [k \in DOMAIN utterances |-> [utterances[k] EXCEPT !.status = "cancelled"]]

\* lines 437-440
stopSpeech(s) ==
    [speakingIndex |-> NoIndex,
     utterances |-> IF Speaking(s) THEN cancel(s.utterances) ELSE s.utterances]

\* lines 442-467, from the speak button of message index of the active
\* session (OutputPanel.tsx:131)
handleToggleSpeak(index) ==
    /\ ~crashed
    /\ activeSession # 0
    /\ index \in DOMAIN sessions[activeSession].messages
    /\ HasActions(sessions[activeSession].messages[index])
    /\ speech' = IF speech.speakingIndex = index
                 THEN stopSpeech(speech)
                 ELSE [speakingIndex |-> index,
                       utterances |-> Append(stopSpeech(speech).utterances,
                                             [index |-> index, status |-> "speaking"])]
    /\ lastOp' = Op("handleToggleSpeak", NoSession, index)
    /\ UNCHANGED <<sessions, activeSessionId, studyMode, isLoading, notifications,
                   streams, summaries, now, crashed, storage, backups, loaded,
                   voice, navigationCommand, slidesView, flashcardsView, quizView>>

\* The callback of utterance k runs: setSpeakingIndex(null) in both
Settled(k) ==
    /\ ~crashed
    /\ k \in DOMAIN speech.utterances
    /\ speech' = [speakingIndex |-> NoIndex,
                  utterances |-> SelectIdx(speech.utterances,
                                           DOMAIN speech.utterances \ {k}, 1)]
    /\ UNCHANGED <<sessions, activeSessionId, studyMode, isLoading, notifications,
                   streams, summaries, now, crashed, storage, backups, loaded,
                   voice, navigationCommand, slidesView, flashcardsView, quizView>>

\* utterance.onend (line 461): the utterance was spoken to its end, or was
\* cancelled by a browser that reports a cancelled utterance as ended
utterance_onend(k) == Settled(k) /\ lastOp' = Op("utterance.onend", NoSession, k)

\* utterance.onerror (lines 462-465): the synthesis failed, or the utterance
\* was cancelled by a browser that reports 'interrupted' or 'canceled'
utterance_onerror(k) == Settled(k) /\ lastOp' = Op("utterance.onerror", NoSession, k)

\* A session with two answers to read aloud
SpokenSession ==
    [StoredSession(1, 2) EXCEPT
       !.messages = @ \o <<[role |-> "user", content |-> <<"q">>],
                           [role |-> "assistant", content |-> <<"a">>, sources |-> <<>>]>>]

InitSpeech ==
    /\ InitApp(<<SpokenSession>>, "chat")
    /\ storage = NoStorage
    /\ backups = {}
    /\ loaded = [threw |-> FALSE, value |-> <<>>]

NextSpeech ==
    \/ now < MaxTime /\ Tick
    \/ \E index \in 1..MaxMessages :
          Len(speech.utterances) < MaxUtterances /\ handleToggleSpeak(index)
    \/ \E k \in 1..MaxUtterances : utterance_onend(k)
    \/ \E k \in 1..MaxUtterances : utterance_onerror(k)
    \/ \E idx \in 1..MaxMessages : handleDeleteMessage(idx)

SpecSpeech == InitSpeech /\ [][NextSpeech]_vars

\* C21: in every reachable state at most one utterance is speaking, and
\* while the utterance for message index i is speaking speakingIndex is i,
\* also after the callback of a cancelled utterance has run.
C21_SpeakingIndexTracksUtterance ==
    /\ Cardinality({k \in DOMAIN speech.utterances :
                       speech.utterances[k].status = "speaking"}) <= 1
    /\ \A k \in DOMAIN speech.utterances :
          speech.utterances[k].status = "speaking"
              => speech.speakingIndex = speech.utterances[k].index

\* C22: a fragment, the final replacement or the error replacement of a
\* stream changes only the placeholder created for that stream; so no step
\* of a stream changes or removes a user message of any session, whatever
\* the user did to the session since the stream started.
C22_StreamKeepsUserMessages ==
    [][lastOp'.op \in {"streamChunk", "streamComplete", "streamFail"} =>
          \A n \in DOMAIN sessions : \A k \in DOMAIN sessions[n].messages :
              RoleOf(sessions[n].messages[k]) = "user" =>
                  /\ n \in DOMAIN sessions'
                  /\ k \in DOMAIN sessions'[n].messages
                  /\ sessions'[n].messages[k] = sessions[n].messages[k]]_vars

\* C23: whenever the display mode is flashcards, quiz or slides there is an
\* active session, and its collection of that kind is not empty.
C23_AidModeHasAid ==
    studyMode \in {"flashcards", "quiz", "slides"} =>
        /\ activeSession # 0
        /\ CASE studyMode = "flashcards" -> sessions[activeSession].flashcards # <<>>
             [] studyMode = "quiz"       -> sessions[activeSession].quizItems # <<>>
             [] studyMode = "slides"     -> sessions[activeSession].slides # <<>>

\* C24: no two sessions of the list share an id, whatever creations made
\* the list and whenever they ran.
C24_SessionIdsUnique ==
    \A i, j \in DOMAIN sessions : sessions[i].id = sessions[j].id => i = j

\* --------------------------------------- the mount effects (App 155-205)
\* The first render has sessions = [] (line 138). Its effects run in the
\* order of their declaration: the load effect (lines 155-169), whose
\* setSessions takes effect in the next render only, then the save effect
\* (lines 203-205) with the sessions of the first render. Under
\* React.StrictMode the effects of the mount run a second time before the
\* next render. lastOp.k is the pass.
MountPasses == 2

\* lines 155-169, up to the state updates it queues
loadEffect(pass) ==
    /\ \/ pass = 1 /\ lastOp.op = "render"
       \/ pass > 1 /\ lastOp = Op("saveEffect", NoSession, pass - 1)
    /\ loaded' = LoadResult(storage)
    /\ backups' = IF storage.kind = "corrupt"
                  THEN backups \cup {[time |-> now, data |-> storage]}
                  ELSE backups
    /\ lastOp' = Op("loadEffect", NoSession, pass)
    /\ UNCHANGED <<sessions, activeSessionId, studyMode, isLoading, notifications,
                   streams, summaries, now, crashed, storage, voice, navigationCommand,
                   speech, slidesView, flashcardsView, quizView>>

\* lines 203-205 in the commit of the first render: saveSessions(sessions)
\* with the list of that render
mountSaveEffect ==
    /\ lastOp.op = "loadEffect"
    /\ storage' = IF storage.kind # "denied" THEN JSONstringify(sessions) ELSE storage
    /\ lastOp' = Op("saveEffect", NoSession, lastOp.k)
    /\ UNCHANGED <<sessions, activeSessionId, studyMode, isLoading, notifications,
                   streams, summaries, now, crashed, backups, loaded, voice,
                   navigationCommand, speech, slidesView, flashcardsView, quizView>>

\* The render after the mount effects: the updates queued by the last run of
\* the load effect (lines 157, 163-168) reach the state
mountRender ==
    /\ lastOp.op = "saveEffect"
    /\ sessions' = loaded.value
    /\ activeSessionId' = IF loaded.value # <<>>
                          THEN LatestSession(loaded.value).id ELSE NoSession
    /\ lastOp' = Op("mount", NoSession, 0)
    /\ UNCHANGED <<studyMode, isLoading, notifications, streams, summaries, now,
                   crashed, storage, backups, loaded, voice, navigationCommand,
                   speech, slidesView, flashcardsView, quizView>>

Mounting == lastOp.op \in {"render", "loadEffect", "saveEffect"}

\* The valid lists found in the storage at the start
MountLists == {<<StoredSession(1, 2)>>, <<StoredSession(2, 2), StoredSession(1, 3)>>}

InitMount ==
    /\ sessions = <<>>
    /\ activeSessionId = NoSession
    /\ studyMode = "chat"
    /\ isLoading = FALSE
    /\ notifications = <<>>
    /\ streams = <<>>
    /\ summaries = <<>>
    /\ now = 3
    /\ crashed = FALSE
    /\ \E list \in MountLists : storage = JSONstringify(list)
    /\ backups = {}
    /\ loaded = NoLoad
    /\ lastOp = Op("render", NoSession, 0)
    /\ voice = VoiceMounted("app", NoSession, <<>>)
    /\ navigationCommand = NoCommand
    /\ ViewsMounted

NextMount ==
    \/ \E pass \in 1..MountPasses : loadEffect(pass)
    \/ mountSaveEffect
    \/ mountRender
    \/ saveEffect
    \/ ~Mounting /\ ~EffectPending /\ now < MaxTime /\ Tick
    \/ ~Mounting /\ ~EffectPending /\ CanCreate(MaxSessions) /\ handleNewSession
          /\ UNCHANGED voiceVars
    \/ \E sid \in IdsInUse : ~Mounting /\ ~EffectPending /\ handleDeleteSession(sid)
    \/ \E idx \in 1..MaxMessages : ~Mounting /\ ~EffectPending /\ handleDeleteMessage(idx)

SpecMount == InitMount /\ [][NextMount]_vars

\* C25: at the start, with a valid non-empty list stored, no write of the
\* persistence effect, from the first render up to the write that follows
\* the arrival of the loaded list in the state, changes the stored list.
C25_StartKeepsStoredSessions ==
    [][(lastOp'.op = "saveEffect" \/ (lastOp.op = "mount" /\ lastOp'.op = "saveSessions"))
          => storage'.sessions = storage.sessions]_vars

\* C26: isLoading is true whenever at least one response stream is in
\* progress, also when two turns overlap and the first one finishes.
C26_LoadingWhileStreaming ==
    (~crashed /\ \E i \in DOMAIN streams : streams[i].status = "streaming")
        => isLoading = TRUE

\* ------------------------- SlidesView and FlashcardsView (voice navigation)
MaxTimeouts == 2
MaxViewTime == 4

\* The aid views are rendered for the active session: by WorkspaceView when
\* it has a document, else in the split screen when it has messages
\* (App lines 541-545, 586-594)
ViewShown(mode) ==
    /\ ~crashed
    /\ activeSession # 0
    /\ studyMode = mode
    /\ \/ sessions[activeSession].documentContext # ""
       \/ sessions[activeSession].messages # <<>>

SlidesLength == Len(sessions[activeSession].slides)
FlashcardsLength == Len(sessions[activeSession].flashcards)

\* The callback of voiceCommands for 'next', 'previous' and their card and
\* slide variants (App lines 481-486)
setNavigationCommand(command) ==
    /\ ~crashed
    /\ navigationCommand' = [command |-> command, timestamp |-> now]
    /\ lastOp' = Op("setNavigationCommand", NoSession, 0)
    /\ UNCHANGED <<sessions, activeSessionId, studyMode, isLoading, notifications,
                   streams, summaries, now, crashed, storage, backups, loaded,
                   voice, speech, slidesView, flashcardsView, quizView>>

\* ModeButton of InputPanel (InputPanel.tsx lines 154-170, 206-210): the
\* button of an aid is enabled when the active session has that aid. The
\* view of the mode left is unmounted and the view of the mode entered mounts
\* with its initial state.
ModeEnabled(mode) ==
    /\ activeSession # 0
    /\ CASE mode = "chat"       -> studyMode # "chat"
         [] mode = "flashcards" -> sessions[activeSession].flashcards # <<>>
         [] mode = "quiz"       -> sessions[activeSession].quizItems # <<>>
         [] mode = "slides"     -> sessions[activeSession].slides # <<>>

setStudyMode(mode) ==
    /\ ~crashed
    /\ ModeEnabled(mode)
    /\ mode # studyMode
    /\ studyMode' = mode
    /\ slidesView' = SlidesViewMounted
    /\ flashcardsView' = FlashcardsViewMounted
    /\ quizView' = QuizViewMounted
    /\ lastOp' = Op("setStudyMode", NoSession, 0)
    /\ UNCHANGED <<sessions, activeSessionId, isLoading, notifications, streams,
                   summaries, now, crashed, storage, backups, loaded, voice,
                   navigationCommand, speech>>

\* SlidesView.tsx lines 55-68 up to the setTimeout: the callback keeps the
\* currentIndex and the slides.length of the render it was created in
handleNavigation(view, direction) ==
    [view EXCEPT !.timeouts = Append(@, [direction |-> direction,
                                         currentIndex |-> view.currentIndex,
                                         length |-> SlidesLength])]

\* lines 59-64
NextIndex(t) ==
    IF t.direction = "next"
    THEN (IF t.currentIndex = t.length - 1 THEN 0 ELSE t.currentIndex + 1)
    ELSE (IF t.currentIndex = 0 THEN t.length - 1 ELSE t.currentIndex + 1)

\* The dependency list of the navigation effect (line 81): goToNext and
\* goToPrevious are new callbacks whenever currentIndex or slides.length
\* changed (lines 68-71)
SlidesDeps == <<navigationCommand, slidesView.currentIndex, SlidesLength>>

SlidesEffectPending == ViewShown("slides") /\ slidesView.deps # <<SlidesDeps>>

\* FlashcardsView lines 61-69: goToNext and goToPrevious change with
\* flashcards.length only (lines 53-59)
FlashcardsDeps == <<navigationCommand, FlashcardsLength>>

FlashcardsEffectPending ==
    ViewShown("flashcards") /\ flashcardsView.deps # <<FlashcardsDeps>>

\* An effect of the last render runs before the next event is handled
ViewEffectPending == SlidesEffectPending \/ FlashcardsEffectPending

\* The buttons and the arrow keys of SlidesView (lines 70-71, 100-101, 139,
\* 153)
SlidesView_goTo(direction) ==
    /\ ViewShown("slides")
    /\ slidesView' = handleNavigation(slidesView, direction)
    /\ lastOp' = Op("SlidesView.goTo", NoSession, 0)
    /\ UNCHANGED <<sessions, activeSessionId, studyMode, isLoading, notifications,
                   streams, summaries, now, crashed, storage, backups, loaded,
                   voice, navigationCommand, speech, flashcardsView, quizView>>

\* lines 73-81
SlidesView_navigationEffect ==
    /\ SlidesEffectPending
    /\ slidesView' =
         [(IF navigationCommand.command \in {"next", "prev"}
           THEN handleNavigation(slidesView, navigationCommand.command)
           ELSE slidesView) EXCEPT !.deps = <<SlidesDeps>>]
    /\ lastOp' = Op("SlidesView.navigationEffect", NoSession, 0)
    /\ UNCHANGED <<sessions, activeSessionId, studyMode, isLoading, notifications,
                   streams, summaries, now, crashed, storage, backups, loaded,
                   voice, navigationCommand, speech, flashcardsView, quizView>>

\* The callback of lines 58-67 runs, 500 ms after its handleNavigation; the
\* render of an index outside the deck reads slide.title of undefined
\* (line 18) and throws
SlidesView_timeout ==
    /\ ViewShown("slides")
    /\ slidesView.timeouts # <<>>
    /\ slidesView' = [slidesView EXCEPT !.currentIndex = NextIndex(Head(slidesView.timeouts)),
                                        !.timeouts = Tail(@)]
    /\ crashed' = (NextIndex(Head(slidesView.timeouts)) \notin 0..(SlidesLength - 1))
    /\ lastOp' = Op("SlidesView.timeout", NoSession, 0)
    /\ UNCHANGED <<sessions, activeSessionId, studyMode, isLoading, notifications,
                   streams, summaries, now, storage, backups, loaded,
                   voice, navigationCommand, speech, flashcardsView, quizView>>

\* FlashcardsView lines 53-59
FlashcardsStep(direction, prevIndex, length) ==
    IF direction = "next"
    THEN (IF prevIndex = length - 1 THEN 0 ELSE prevIndex + 1)
    ELSE (IF prevIndex = 0 THEN length - 1 ELSE prevIndex - 1)

\* The buttons and the arrow keys of FlashcardsView (lines 71-83, 99, 105)
FlashcardsView_goTo(direction) ==
    /\ ViewShown("flashcards")
    /\ flashcardsView' =
         [flashcardsView EXCEPT
            !.currentIndex = FlashcardsStep(direction, @, FlashcardsLength)]
    /\ lastOp' = Op("FlashcardsView.goTo", NoSession, 0)
    /\ UNCHANGED <<sessions, activeSessionId, studyMode, isLoading, notifications,
                   streams, summaries, now, crashed, storage, backups, loaded,
                   voice, navigationCommand, speech, slidesView, quizView>>

\* lines 61-69
FlashcardsView_navigationEffect ==
    /\ FlashcardsEffectPending
    /\ flashcardsView' =
         [currentIndex |-> IF navigationCommand.command \in {"next", "prev"}
                           THEN FlashcardsStep(navigationCommand.command,
                                               flashcardsView.currentIndex,
                                               FlashcardsLength)
                           ELSE flashcardsView.currentIndex,
          deps |-> <<FlashcardsDeps>>]
    /\ lastOp' = Op("FlashcardsView.navigationEffect", NoSession, 0)
    /\ UNCHANGED <<sessions, activeSessionId, studyMode, isLoading, notifications,
                   streams, summaries, now, crashed, storage, backups, loaded,
                   voice, navigationCommand, speech, slidesView, quizView>>

\* A session with three slides and three flashcards
DeckSession ==
    [StoredSession(1, 2) EXCEPT
       !.flashcards = <<"card0", "card1", "card2">>, !.flashcardsTitle = "T0",
       !.slides = <<"slide0", "slide1", "slide2">>, !.slidesTitle = "T0"]

InitViews ==
    /\ InitApp(<<DeckSession>>, "chat")
    /\ storage = NoStorage
    /\ backups = {}
    /\ loaded = [threw |-> FALSE, value |-> <<>>]

NextViews ==
    \/ SlidesView_navigationEffect
    \/ FlashcardsView_navigationEffect
    \/ ~ViewEffectPending /\ now < MaxViewTime /\ Tick
    \/ \E mode \in {"chat", "flashcards", "slides"} :
          ~ViewEffectPending /\ setStudyMode(mode)
    \/ \E command \in {"next", "prev"} :
          /\ ~ViewEffectPending
          /\ Len(slidesView.timeouts) < MaxTimeouts
          /\ setNavigationCommand(command)
    \/ \E direction \in {"next", "prev"} :
          /\ ~ViewEffectPending
          /\ Len(slidesView.timeouts) < MaxTimeouts
          /\ SlidesView_goTo(direction)
    \/ ~ViewEffectPending /\ SlidesView_timeout
    \/ \E direction \in {"next", "prev"} :
          ~ViewEffectPending /\ FlashcardsView_goTo(direction)

SpecViews == InitViews /\ [][NextViews]_vars

\* C27: in the slide view the current index stays within 0..n-1 for a deck
\* of n slides, whatever next and previous navigations were made.
C27_SlideIndexInRange ==
    (activeSession # 0 /\ studyMode = "slides") =>
        slidesView.currentIndex \in 0..(SlidesLength - 1)

\* C28: a voice navigation command moves the flashcard or the slide once and
\* causes no further navigation later: the navigation effect of a view
\* navigates only in the render that follows a command or, for a command
\* given while the view was not shown, the mount of the view; it never
\* navigates when it runs again because the index changed.
C28_CommandNavigatesOnce ==
    [][(\/ /\ lastOp'.op = "SlidesView.navigationEffect"
           /\ Len(slidesView'.timeouts) > Len(slidesView.timeouts)
        \/ /\ lastOp'.op = "FlashcardsView.navigationEffect"
           /\ flashcardsView'.currentIndex # flashcardsView.currentIndex)
          => lastOp.op \in {"setNavigationCommand", "setStudyMode"}]_vars

\* ------------------------------------------------------------ QuizView
\* The countdown is quizItems.length * 30 seconds or more (lines 81,
\* 167-172); QuizTimer stands for it, in ticks of the interval of line 93
QuizTimer == 2
MaxQuizTimeouts == 2
QuizOptions == {"A", "B"}

QuizLength == Len(sessions[activeSession].quizItems)

\* lines 108-115; timer is the timerSetting chosen, NoTime for 'No Timer'
handleStartQuiz(timer) ==
    /\ ViewShown("quiz")
    /\ quizView.quizState = "not-started"
    /\ quizView' = [quizView EXCEPT !.currentIndex = 0, !.answers = <<>>,
                                    !.selectedOption = "", !.timeLeft = timer,
                                    !.quizState = "in-progress"]
    /\ lastOp' = Op("handleStartQuiz", NoSession, 0)
    /\ UNCHANGED <<sessions, activeSessionId, studyMode, isLoading, notifications,
                   streams, summaries, now, crashed, storage, backups, loaded,
                   voice, navigationCommand, speech, slidesView, flashcardsView>>

\* setAnswers(prev => ({ ...prev, [currentIndex]: option })), line 106
WithAnswer(answers, index, option) ==
    [k \in DOMAIN answers \cup {index} |-> IF k = index THEN option ELSE answers[k]]

\* lines 103-107, from an option button of the question shown (line 282)
handleAnswerSelect(option) ==
    /\ ViewShown("quiz")
    /\ quizView.quizState = "in-progress"
    /\ quizView.selectedOption = ""
    /\ quizView' = [quizView EXCEPT
                      !.selectedOption = option,
                      !.answers = WithAnswer(@, quizView.currentIndex, option)]
    /\ lastOp' = Op("handleAnswerSelect", NoSession, quizView.currentIndex)
    /\ UNCHANGED <<sessions, activeSessionId, studyMode, isLoading, notifications,
                   streams, summaries, now, crashed, storage, backups, loaded,
                   voice, navigationCommand, speech, slidesView, flashcardsView>>

\* lines 118-129 up to the setTimeout, from the Next button (line 320) or
\* the ArrowRight key (lines 144-145), both available with an option
\* selected: the callback keeps the currentIndex of its render
handleNext ==
    /\ ViewShown("quiz")
    /\ quizView.selectedOption # ""
    /\ quizView' = [quizView EXCEPT
                      !.timeouts = Append(@, [kind |-> "next",
                                              currentIndex |-> quizView.currentIndex,
                                              answers |-> quizView.answers])]
    /\ lastOp' = Op("handleNext", NoSession, quizView.currentIndex)
    /\ UNCHANGED <<sessions, activeSessionId, studyMode, isLoading, notifications,
                   streams, summaries, now, crashed, storage, backups, loaded,
                   voice, navigationCommand, speech, slidesView, flashcardsView>>

\* lines 131-140 up to the setTimeout, from the Previous button (line 309)
\* or the ArrowLeft key (lines 146-147): the callback keeps the currentIndex
\* and the answers of its render
QuizView_goToPrevious ==
    /\ ViewShown("quiz")
    /\ quizView' = IF quizView.currentIndex = 0 THEN quizView
                   ELSE [quizView EXCEPT
                           !.timeouts = Append(@, [kind |-> "prev",
                                                   currentIndex |-> quizView.currentIndex,
                                                   answers |-> quizView.answers])]
    /\ lastOp' = Op("QuizView.goToPrevious", NoSession, quizView.currentIndex)
    /\ UNCHANGED <<sessions, activeSessionId, studyMode, isLoading, notifications,
                   streams, summaries, now, crashed, storage, backups, loaded,
                   voice, navigationCommand, speech, slidesView, flashcardsView>>

\* The state after the callback of lines 120-128 (next) or 134-139 (prev)
AfterTimeout(view, t) ==
    IF t.kind = "next"
    THEN (IF t.currentIndex < QuizLength - 1
          THEN [view EXCEPT !.currentIndex = @ + 1, !.selectedOption = ""]
          ELSE [view EXCEPT !.quizState = "finished"])
    ELSE [view EXCEPT
            !.currentIndex = t.currentIndex - 1,
            !.selectedOption = IF (t.currentIndex - 1) \in DOMAIN t.answers
                               THEN t.answers[t.currentIndex - 1] ELSE ""]

\* The oldest pending callback runs, 500 ms after its request. A question
\* rendered for an index outside the quiz reads currentItem.question of
\* undefined (line 88) and throws.
QuizView_timeout ==
    LET after == [AfterTimeout(quizView, Head(quizView.timeouts)) EXCEPT
                    !.timeouts = Tail(quizView.timeouts)]
    IN  /\ ViewShown("quiz")
        /\ quizView.timeouts # <<>>
        /\ quizView' = after
        /\ crashed' = (/\ after.quizState = "in-progress"
                       /\ after.currentIndex \notin 0..(QuizLength - 1))
        /\ lastOp' = Op("QuizView.timeout", NoSession, 0)
        /\ UNCHANGED <<sessions, activeSessionId, studyMode, isLoading, notifications,
                       streams, summaries, now, storage, backups, loaded,
                       voice, navigationCommand, speech, slidesView, flashcardsView>>

\* The interval of lines 93-95 with the effect of lines 98-99 that follows
\* the render of timeLeft 0
QuizView_interval ==
    /\ ViewShown("quiz")
    /\ quizView.quizState = "in-progress"
    /\ quizView.timeLeft > 0
    /\ quizView' = [quizView EXCEPT
                      !.timeLeft = @ - 1,
                      !.quizState = IF quizView.timeLeft - 1 = 0 THEN "finished" ELSE @]
    /\ lastOp' = Op("QuizView.interval", NoSession, 0)
    /\ UNCHANGED <<sessions, activeSessionId, studyMode, isLoading, notifications,
                   streams, summaries, now, crashed, storage, backups, loaded,
                   voice, navigationCommand, speech, slidesView, flashcardsView>>

\* lines 157-159
handleRetake ==
    /\ ViewShown("quiz")
    /\ quizView.quizState = "finished"
    /\ quizView' = [quizView EXCEPT !.quizState = "not-started"]
    /\ lastOp' = Op("handleRetake", NoSession, 0)
    /\ UNCHANGED <<sessions, activeSessionId, studyMode, isLoading, notifications,
                   streams, summaries, now, crashed, storage, backups, loaded,
                   voice, navigationCommand, speech, slidesView, flashcardsView>>

\* A session with a quiz of three questions
QuizSession ==
    [StoredSession(1, 2) EXCEPT
       !.quizItems = <<"quiz0", "quiz1", "quiz2">>, !.quizTitle = "T0"]

InitQuiz ==
    /\ InitApp(<<QuizSession>>, "quiz")
    /\ storage = NoStorage
    /\ backups = {}
    /\ loaded = [threw |-> FALSE, value |-> <<>>]

NextQuiz ==
    \/ \E timer \in {NoTime, QuizTimer} : handleStartQuiz(timer)
    \/ \E option \in QuizOptions : handleAnswerSelect(option)
    \/ Len(quizView.timeouts) < MaxQuizTimeouts /\ handleNext
    \/ Len(quizView.timeouts) < MaxQuizTimeouts /\ QuizView_goToPrevious
    \/ QuizView_timeout
    \/ QuizView_interval
    \/ handleRetake

SpecQuiz == InitQuiz /\ [][NextQuiz]_vars

\* C29: while a quiz is in progress an answer recorded for a question is
\* never changed, whatever navigations and selections follow.
C29_AnswersAreFinal ==
    [][(quizView.quizState = "in-progress" /\ quizView'.quizState = "in-progress") =>
          \A i \in DOMAIN quizView.answers :
              /\ i \in DOMAIN quizView'.answers
              /\ quizView'.answers[i] = quizView.answers[i]]_vars

\* C30: during a quiz the current index stays within 0..n-1 for n quiz
\* items, under any interleaving of the next and previous requests with
\* their delayed effects and with the countdown.
C30_QuizIndexInRange ==
    (activeSession # 0 /\ quizView.quizState = "in-progress") =>
        quizView.currentIndex \in 0..(QuizLength - 1)

====
